---------------------------- MODULE Spec2Model ----------------------------
(***************************************************************************)
(* A model of pybaselines/classification.py: the point classifiers         *)
(* golotvin, dietrich, std_distribution, fastchrom, cwt_br and fabc and    *)
(* the helpers they share.                                                 *)
(*                                                                         *)
(* Conventions                                                             *)
(*  - A numpy array is a function over 0..n-1, so that every index and     *)
(*    every slice bound of the source is the same number in the model.     *)
(*  - A float is an exact rational <<num, den>> with den >= 0 in lowest    *)
(*    terms; <<1,0>> is +inf, <<-1,0>> is -inf and <<0,0>> is NaN, with    *)
(*    IEEE rules for the special values.  Rounding is not modelled.        *)
(*  - A quantity that the source obtains as a square root (a standard      *)
(*    deviation, a norm) is held as its square, and every comparison       *)
(*    against it is made on squares with the signs taken into account.     *)
(***************************************************************************)
EXTENDS Integers, Sequences, FiniteSets, TLC

(***************************************************************************)
(* Floats as exact rationals.                                              *)
(***************************************************************************)
Abs(a) == IF a < 0 THEN -a ELSE a

Sign(a) == IF a < 0 THEN -1 ELSE IF a > 0 THEN 1 ELSE 0

RECURSIVE Gcd(_, _)
Gcd(a, b) == IF b = 0 THEN a ELSE Gcd(b, a % b)

Norm(n, d) ==
    IF d = 0 THEN <<Sign(n), 0>>
    ELSE LET g == Gcd(Abs(n), Abs(d))
             s == IF d < 0 THEN -1 ELSE 1
         IN  <<(s * n) \div g, (s * d) \div g>>

R(n) == <<n, 1>>

NaN == <<0, 0>>

Inf == <<1, 0>>

IsNaN(a) == a = NaN

IsInf(a) == a[2] = 0 /\ a[1] # 0

IsFinite(a) == a[2] # 0

RNeg(a) == <<-a[1], a[2]>>

RAdd(a, b) ==
    IF IsNaN(a) \/ IsNaN(b) THEN NaN
    ELSE IF IsInf(a) /\ IsInf(b) THEN (IF a = b THEN a ELSE NaN)
    ELSE LET g == Gcd(a[2], b[2])
         IN  IF g = 0 THEN Norm(a[1] * b[2] + b[1] * a[2], 0)
             ELSE Norm(a[1] * (b[2] \div g) + b[1] * (a[2] \div g),
                       (a[2] \div g) * b[2])

RSub(a, b) == RAdd(a, RNeg(b))

RMul(a, b) ==
    LET g1 == Gcd(Abs(a[1]), b[2])
        g2 == Gcd(Abs(b[1]), a[2])
    IN  IF g1 = 0 \/ g2 = 0 THEN Norm(a[1] * b[1], a[2] * b[2])
        ELSE Norm((a[1] \div g1) * (b[1] \div g2), (a[2] \div g2) * (b[2] \div g1))

RInv(a) == IF a = R(0) THEN Inf ELSE Norm(a[2], a[1])

RDiv(a, b) == RMul(a, RInv(b))

RLt(a, b) ==
    IF IsNaN(a) \/ IsNaN(b) THEN FALSE
    ELSE IF IsInf(a) /\ IsInf(b) THEN a[1] < b[1]
    ELSE LET g == Gcd(a[2], b[2])
         IN  IF g = 0 THEN a[1] * b[2] < b[1] * a[2]
             ELSE a[1] * (b[2] \div g) < b[1] * (a[2] \div g)

RGt(a, b) == RLt(b, a)

RLe(a, b) == ~IsNaN(a) /\ ~IsNaN(b) /\ ~RLt(b, a)

RSign(a) == Sign(a[1])

RSq(a) == RMul(a, a)

(* a < k * sqrt(v), with v the square of the root (v >= 0, +inf or NaN).   *)
LtRoot(a, k, v) ==
    LET rhsSq   == RMul(RSq(k), v)
        rhsSign == IF IsNaN(rhsSq) THEN 0 ELSE RSign(k) * RSign(v)
    IN  IF IsNaN(a) \/ IsNaN(rhsSq) THEN FALSE
        ELSE IF RSign(a) < 0 /\ rhsSign >= 0 THEN TRUE
        ELSE IF RSign(a) >= 0 /\ rhsSign <= 0 THEN FALSE
        ELSE IF rhsSign > 0 THEN RLt(RSq(a), rhsSq)
        ELSE RLt(rhsSq, RSq(a))

(* a > k * sqrt(v).                                                        *)
GtRoot(a, k, v) == LtRoot(RNeg(a), RNeg(k), v)

(***************************************************************************)
(* numpy arrays.                                                           *)
(***************************************************************************)
Size(a) == Cardinality(DOMAIN a)

Empty == [i \in {} |-> 0]

(* a[start:stop] with Python's treatment of negative and out-of-range      *)
(* bounds; -0 is 0, so a[h:-h] is empty when h = 0.                        *)
PyIndex(k, n) ==
    LET j == IF k < 0 THEN k + n ELSE k
    IN  IF j < 0 THEN 0 ELSE IF j > n THEN n ELSE j

PySlice(a, start, stop) ==
    LET n  == Size(a)
        lo == PyIndex(start, n)
        hi == PyIndex(stop, n)
    IN  IF hi <= lo THEN Empty ELSE [i \in 0..(hi - lo - 1) |-> a[lo + i]]

(* a[start:] *)
PySliceFrom(a, start) == PySlice(a, start, Size(a))

Concat(a, b) ==
    [i \in 0..(Size(a) + Size(b) - 1) |->
        IF i < Size(a) THEN a[i] ELSE b[i - Size(a)]]

(* the elements of a finite set of integers in increasing order *)
Sorted(S) ==
    [k \in 0..(Cardinality(S) - 1) |->
        CHOOSE e \in S : Cardinality({f \in S : f < e}) = k]

flatnonzero(b) == Sorted({i \in DOMAIN b : b[i]})

(* a[~mask] *)
Masked_out(a, mask) ==
    LET idx == flatnonzero([k \in DOMAIN mask |-> ~mask[k]])
    IN  [k \in DOMAIN idx |-> a[idx[k]]]

(* a[mask] *)
Masked(a, mask) == LET idx == flatnonzero(mask) IN [k \in DOMAIN idx |-> a[idx[k]]]

RECURSIVE SumTo(_, _)
SumTo(a, k) == IF k < 0 THEN R(0) ELSE RAdd(SumTo(a, k - 1), a[k])

RSum(a) == SumTo(a, Size(a) - 1)

CountTrue(b) == Cardinality({i \in DOMAIN b : b[i]})

(* np.mean: 0/0 = NaN for an empty array *)
mean(a) == RDiv(RSum(a), R(Size(a)))

(* np.std(a, ddof) ** 2: NaN when Size(a) - ddof = 0, as 0/0 *)
variance(a, ddof) ==
    LET m == mean(a)
        d == [i \in DOMAIN a |-> RSq(RSub(a[i], m))]
    IN  IF Size(a) = 0 THEN NaN ELSE RDiv(RSum(d), R(Size(a) - ddof))

(* np.linspace(-1, 1, n): the default x of _setup_classification *)
linspace(n) ==
    [i \in 0..(n - 1) |-> IF n = 1 THEN R(-1) ELSE RAdd(R(-1), Norm(2 * i, n - 1))]

(* np.pad(a, h, 'reflect'): the edge value is not repeated *)
ReflectIndex(k, n) ==
    IF n = 1 THEN 0
    ELSE LET p == 2 * (n - 1)
             r == ((k % p) + p) % p
         IN  IF r < n THEN r ELSE p - r

pad_reflect(a, h) ==
    [i \in 0..(Size(a) + 2 * h - 1) |-> a[ReflectIndex(i - h, Size(a))]]

(* scipy.ndimage mode='reflect': the edge value is repeated *)
SymmetricIndex(k, n) ==
    LET p == 2 * n
        r == ((k % p) + p) % p
    IN  IF r < n THEN r ELSE p - 1 - r

(***************************************************************************)
(* scipy.ndimage morphology on 1-D arrays (origin at the centre of the     *)
(* structure, border_value = 0).                                           *)
(***************************************************************************)
binary_erosion(input, structure) ==
    LET n == Size(input)
        c == Size(structure) \div 2
    IN  [i \in DOMAIN input |->
            \A j \in DOMAIN structure :
                structure[j] => (i + j - c \in 0..(n - 1) /\ input[i + j - c])]

binary_dilation(input, structure) ==
    LET n == Size(input)
        c == Size(structure) \div 2
    IN  [i \in DOMAIN input |->
            \E j \in DOMAIN structure :
                structure[j] /\ i - (j - c) \in 0..(n - 1) /\ input[i - (j - c)]]

ones(n) == [i \in 0..(n - 1) |-> TRUE]

RMax(S) == CHOOSE m \in S : \A e \in S : RLe(e, m)

RMin(S) == CHOOSE m \in S : \A e \in S : RLe(m, e)

(* grey_dilation(y, size) and grey_erosion(y, size): rolling max and min *)
Window(a, i, h) == {a[SymmetricIndex(k, Size(a))] : k \in (i - h)..(i + h)}

grey_dilation(a, size) == [i \in DOMAIN a |-> RMax(Window(a, i, size \div 2))]

grey_erosion(a, size) == [i \in DOMAIN a |-> RMin(Window(a, i, size \div 2))]

(* numpy's broadcasting of two one-dimensional arrays: equal lengths, or   *)
(* one of them of length 1, which is repeated (to length 0 as well)        *)
Broadcasts(a, b) == Size(a) = Size(b) \/ Size(a) = 1 \/ Size(b) = 1

And(a, b) ==
    LET n == IF Size(a) = 1 THEN Size(b) ELSE Size(a)
    IN  [i \in 0..(n - 1) |->
            a[IF Size(a) = 1 THEN 0 ELSE i] /\ b[IF Size(b) = 1 THEN 0 ELSE i]]

Or(a, b) == [i \in DOMAIN a |-> a[i] \/ b[i]]

Not(a) == [i \in DOMAIN a |-> ~a[i]]

(***************************************************************************)
(* Helpers of classification.py.                                           *)
(***************************************************************************)
One(v) == [i \in {0} |-> v]

(* numpy's a < b on booleans *)
BoolLt(a, b) == ~a /\ b

(* _remove_single_points without its second erosion, binary_erosion(mask,  *)
(* [0, 1, 1]): every run of True loses its first point                     *)
_remove_single_points_one_sided(m) ==
    LET s110 == [j \in 0..2 |-> j # 2]
        s101 == [j \in 0..2 |-> j # 1]
        temp == binary_erosion(m, s110)
    IN  Or(temp, binary_erosion(temp, s101))

_remove_single_points(mask) ==
    LET s110 == [j \in 0..2 |-> j # 2]
        s011 == [j \in 0..2 |-> j # 0]
        s101 == [j \in 0..2 |-> j # 1]
        temp == Or(binary_erosion(mask, s110), binary_erosion(mask, s011))
    IN  Or(temp, binary_erosion(temp, s101))

(* _find_peak_segments without the shifts of lines 76 and 81: a segment is *)
(* the run of False itself, without the points that bound it               *)
_find_peak_segments_unshifted(mask) ==
    LET extended_mask == Concat(Concat(One(TRUE), mask), One(TRUE))
    IN  <<flatnonzero([i \in DOMAIN mask |->
                          BoolLt(extended_mask[i + 1], extended_mask[i])]),
          flatnonzero([i \in DOMAIN mask |->
                          BoolLt(extended_mask[i + 1], extended_mask[i + 2])])>>

(* _find_peak_segments with line 76 as peak_starts -= 1: the start of a    *)
(* run that begins at index 0 is shifted as well                           *)
_find_peak_segments_all_shifted(mask) ==
    LET found == _find_peak_segments_unshifted(mask)
        n     == Size(mask)
    IN  <<[k \in DOMAIN found[1] |-> found[1][k] - 1],
          [k \in DOMAIN found[2] |->
               IF found[2][k] = n - 1 THEN found[2][k] ELSE found[2][k] + 1]>>

_find_peak_segments(mask) ==
    LET n             == Size(mask)
        extended_mask == Concat(Concat(One(TRUE), mask), One(TRUE))
        starts0 == flatnonzero([i \in DOMAIN mask |->
                       BoolLt(extended_mask[i + 1], extended_mask[i])])
        firstShift == IF Size(starts0) > 0 /\ starts0[0] = 0 THEN 1 ELSE 0
        peak_starts == [k \in DOMAIN starts0 |->
                           IF k >= firstShift THEN starts0[k] - 1 ELSE starts0[k]]
        ends0 == flatnonzero([i \in DOMAIN mask |->
                       BoolLt(extended_mask[i + 1], extended_mask[i + 2])])
        lastStop == IF Size(ends0) > 0 /\ ends0[Size(ends0) - 1] = n - 1
                    THEN Size(ends0) - 1 ELSE Size(ends0)
        peak_ends == [k \in DOMAIN ends0 |->
                           IF k < lastStop THEN ends0[k] + 1 ELSE ends0[k]]
    IN  <<peak_starts, peak_ends>>

(* utils._interp_inplace(x, y, y_start, y_end): the values strictly between *)
(* the two ends of y are replaced by the line from y_start to y_end.       *)
_interp_inplace(x, y, y_start, y_end) ==
    LET n     == Size(y)
        slope == RDiv(RSub(y_end, y_start), RSub(x[n - 1], x[0]))
    IN  [i \in DOMAIN y |->
            IF 0 < i /\ i < n - 1
            THEN RAdd(y_start, RMul(RSub(x[i], x[0]), slope))
            ELSE y[i]]

Min2(a, b) == IF a < b THEN a ELSE b

Max2(a, b) == IF a > b THEN a ELSE b

(* output with output[start:end + 1] interpolated for the segments k.. *)
RECURSIVE InterpSegments(_, _, _, _, _, _, _)
InterpSegments(x, y, output, peak_starts, peak_ends, interp_half_window, k) ==
    IF k >= Min2(Size(peak_starts), Size(peak_ends)) THEN output
    ELSE LET num_y == Size(y)
             start == peak_starts[k]
             end   == peak_ends[k]
             left_mean  == mean(PySlice(y, Max2(0, start - interp_half_window),
                                   Min2(start + interp_half_window + 1, num_y)))
             right_mean == mean(PySlice(y, Max2(0, end - interp_half_window),
                                   Min2(end + interp_half_window + 1, num_y)))
             section == _interp_inplace(PySlice(x, start, end + 1),
                            PySlice(output, start, end + 1), left_mean, right_mean)
             written == [i \in DOMAIN output |->
                            IF start <= i /\ i <= end THEN section[i - start]
                            ELSE output[i]]
         IN  InterpSegments(x, y, written, peak_starts, peak_ends,
                            interp_half_window, k + 1)

(* _averaged_interp with every point of the output averaged over its      *)
(* window before the segments are interpolated                             *)
_averaged_interp_smoothed(x, y, mask, interp_half_window) ==
    LET mask_sum == CountTrue(mask)
        segs     == _find_peak_segments(mask)
        averaged == [k \in DOMAIN y |->
                        mean(PySlice(y, Max2(0, k - interp_half_window),
                                     Min2(k + interp_half_window + 1, Size(y))))]
    IN  IF mask_sum # 0 /\ mask_sum = Size(mask) THEN averaged
        ELSE InterpSegments(x, y, averaged, segs[1], segs[2], interp_half_window, 0)

_averaged_interp(x, y, mask, interp_half_window) ==
    LET mask_sum == CountTrue(mask)
        segs     == _find_peak_segments(mask)
    IN  IF mask_sum # 0 /\ mask_sum = Size(mask) THEN y
        ELSE InterpSegments(x, y, y, segs[1], segs[2], interp_half_window, 0)

(* The ParameterWarning _averaged_interp issues, or "none". *)
_averaged_interp_warning(mask) ==
    IF CountTrue(mask) = 0 THEN {"there were no baseline points found"}
    ELSE IF CountTrue(mask) = Size(mask) THEN {"there were no peak points found"}
    ELSE {}

(***************************************************************************)
(* The state: one call of one classifier.  data, weights and args are the  *)
(* caller's arguments; the other variables are the locals of the function  *)
(* being run and, once pc = "return", the returned baseline and params.    *)
(***************************************************************************)
VARIABLES
    func,            \* the classifier called
    data,            \* the caller's data array
    weights,         \* the caller's weights array
    args,            \* the keyword arguments
    pc,              \* position in the function
    y, x, weight_array,
    mask,
    rough_baseline,
    baseline,
    coef, old_coef,
    tol_history,
    i,               \* the loop index of the refit loops
    power, old_mask, \* the locals of _iter_threshold
    std, median, median_2,   \* the rolling statistic and the noise medians
    peak_starts, peak_ends,  \* the peak segments of fastchrom
    scale, shannon_old, shannon_current, baseline_old,   \* locals of cwt_br
    shannon_entropy, below_sigma,   \* the results of the transform, see cwt_br
    solver_weights,  \* the weights fabc passed to _whittaker_smooth
    memory,          \* the buffer each array name is bound to, and the
                     \* buffers written in place so far
    output,          \* the array diff_penalty_diagonals returned
    warnings,        \* the ParameterWarnings issued so far
    params           \* the returned dictionary

cwt_vars ==
    <<scale, shannon_old, shannon_current, baseline_old, shannon_entropy,
      below_sigma>>

vars ==
    <<func, output, data, weights, args, pc, y, x, weight_array, mask, rough_baseline,
      baseline, coef, old_coef, tol_history, i, power, old_mask, warnings,
      params, std, median, median_2, peak_starts, peak_ends, cwt_vars,
      solver_weights, memory>>

(***************************************************************************)
(* Memory.  An array name is bound to a buffer: "data", "x_data" and       *)
(* "weights" are the caller's arrays, "local" is an array created during   *)
(* the call.  An in-place update of a name writes the buffer it is bound   *)
(* to.                                                                     *)
(***************************************************************************)
(* np.asarray in _setup_classification keeps the caller's array when it    *)
(* already has the wanted dtype                                            *)
_setup_classification_memory ==
    [buffer |-> [y |-> "data", x |-> "x_data", weight_array |-> "weights",
                 mask |-> "unbound", rough_baseline |-> "unbound"],
     written |-> {}]

(* name = <array> *)
bind(mem, name, buf) == [mem EXCEPT !.buffer[name] = buf]

(* name[...] = <values>, name |= <values> *)
write(mem, name) == [mem EXCEPT !.written = @ \cup {mem.buffer[name]}]

(* ndarray.copy() of an array in the buffer buf, as no copy at all *)
np_copy_view(buf) == buf

(* ndarray.copy() of an array in the buffer buf *)
np_copy(buf) == "local"

(* rough_baseline = _averaged_interp(x, y, mask, ...): output = y.copy()   *)
(* (line 110) is returned, written through output[start:end + 1] (line     *)
(* 128) for every peak segment; a mask has a peak segment exactly when it  *)
(* has a False entry                                                       *)
_averaged_interp_memory(mem, m) ==
    LET out == bind(mem, "rough_baseline", np_copy(mem.buffer.y))
    IN  IF \E k \in DOMAIN m : ~m[k] THEN write(out, "rough_baseline") ELSE out

(***************************************************************************)
(* Bounds and input domains.                                               *)
(***************************************************************************)
MaxLen == 3

Lengths == 1..MaxLen

(* std_distribution and fastchrom need one more sample for their loops to  *)
(* be entered.                                                             *)
LongLengths == 1..(MaxLen + 1)

Samples == {0, 1, 3}

Arrays(S, L) == UNION {[0..(n - 1) -> S] : n \in L}

(* _algorithm_setup._setup_classification with x_data = None: y is data as *)
(* floats, x is evenly spaced on [-1, 1], weight_array is weights != 0.    *)
_setup_y(d) == [k \in DOMAIN d |-> R(d[k])]

_setup_x(d) == linspace(Size(d))

_setup_weight_array(w) == [k \in DOMAIN w |-> w[k] # 0]

(* uniform_filter1d(pad_edges(a, h, mode='edge'), 2 * h + 1)[h:n + h] *)
pad_edges(a, h) ==
    [k \in 0..(Size(a) + 2 * h - 1) |->
        a[IF k < h THEN 0 ELSE IF k - h > Size(a) - 1 THEN Size(a) - 1 ELSE k - h]]

uniform_filter1d(a, size) ==
    [k \in DOMAIN a |->
        mean([j \in 0..(size - 1) |->
                 a[SymmetricIndex(k + j - size \div 2, Size(a))]])]

smoothed(a, smooth_half_window) ==
    PySlice(uniform_filter1d(pad_edges(a, smooth_half_window),
                             2 * smooth_half_window + 1),
            smooth_half_window, Size(a) + smooth_half_window)

(***************************************************************************)
(* golotvin                                                                *)
(***************************************************************************)
(* min(min_sigma, s) of Python on squared standard deviations: the second  *)
(* argument is taken only when it compares smaller.                        *)
PyMin(a, b) == IF RLt(b, a) THEN b ELSE a

RECURSIVE golotvin_min_sigma(_, _, _)
golotvin_min_sigma(yy, sections, k) ==
    IF k < 0 THEN Inf
    ELSE LET num_y == Size(yy)
         IN  PyMin(golotvin_min_sigma(yy, sections, k - 1),
                   variance(PySlice(yy, (k * num_y) \div sections,
                                    ((k + 1) * num_y) \div sections), 1))

(* golotvin_mask without the weights *)
golotvin_mask_unweighted(yy, wa, a) ==
    LET min_sigma == golotvin_min_sigma(yy, a.sections, a.sections - 1)
        size      == 2 * a.half_window + 1
        dil       == grey_dilation(yy, size)
        ero       == grey_erosion(yy, size)
        thresholded == [k \in DOMAIN yy |->
                           LtRoot(RSub(dil[k], ero[k]), a.num_std, min_sigma)]
    IN  _remove_single_points(thresholded)

golotvin_mask(yy, wa, a) ==
    LET min_sigma == golotvin_min_sigma(yy, a.sections, a.sections - 1)
        size      == 2 * a.half_window + 1
        dil       == grey_dilation(yy, size)
        ero       == grey_erosion(yy, size)
        thresholded == [k \in DOMAIN yy |->
                           LtRoot(RSub(dil[k], ero[k]), a.num_std, min_sigma)]
    IN  And(_remove_single_points(thresholded), wa)

GolotvinArgs ==
    [half_window : {0, 1}, num_std : {R(2)}, sections : {2},
     smooth_half_window : {1}, interp_half_window : {1}]

golotvin ==
    /\ func = "golotvin" /\ pc = "call"
    /\ y' = _setup_y(data)
    /\ x' = _setup_x(data)
    /\ weight_array' = _setup_weight_array(weights)
    /\ mask' = golotvin_mask(y', weight_array', args)
    /\ rough_baseline' = _averaged_interp(x', y', mask', args.interp_half_window)
    /\ baseline' = smoothed(rough_baseline', args.smooth_half_window)
    /\ params' = [mask |-> mask']
    /\ warnings' = warnings \cup _averaged_interp_warning(mask')
    /\ memory' = _averaged_interp_memory(
                     bind(_setup_classification_memory, "mask", "local"), mask')
    /\ pc' = "return"
    /\ UNCHANGED <<func, output, data, weights, args, coef, old_coef, tol_history, i,
                   power, old_mask,
                   std, median, median_2,
                   peak_starts, peak_ends, cwt_vars,
                   solver_weights>>

(***************************************************************************)
(* _iter_threshold, run by dietrich and fabc: one action per evaluation of *)
(* the while condition.                                                    *)
(***************************************************************************)
(* power <= np.mean(p) + num_std * np.std(p, ddof=1) *)
threshold_mask_inclusive(pw, p, num_std) ==
    [k \in DOMAIN pw |-> ~GtRoot(RSub(pw[k], mean(p)), num_std, variance(p, 1))]

(* power < np.mean(p) + num_std * np.std(p, ddof=1) *)
threshold_mask(pw, p, num_std) ==
    LET m == mean(p)
        v == variance(p, 1)
    IN  [k \in DOMAIN pw |-> LtRoot(RSub(pw[k], m), num_std, v)]

(* lines 252-253 *)
_iter_threshold_enter(pw, num_std) ==
    /\ power' = pw
    /\ mask' = threshold_mask(pw, pw, num_std)
    /\ old_mask' = [k \in DOMAIN pw |-> TRUE]
    /\ pc' = "_iter_threshold"

(* lines 254-263: one pass of the loop body *)
_iter_threshold_loop ==
    /\ pc = "_iter_threshold"
    /\ mask # old_mask
    /\ old_mask' = mask
    /\ LET masked_power == Masked(power, mask)
       IN  IF Size(masked_power) < 2
           THEN /\ warnings' = warnings \cup {"not enough baseline points found"}
                /\ mask' = mask
                /\ pc' = "thresholded"
           ELSE /\ mask' = threshold_mask(power, masked_power, args.num_std)
                /\ UNCHANGED <<warnings, pc>>
    /\ UNCHANGED <<func, output, data, weights, args, memory, y, x, weight_array, rough_baseline,
                   baseline, coef, old_coef, tol_history, i, power, params,
                   std, median, median_2,
                   peak_starts, peak_ends, cwt_vars,
                   solver_weights>>

(* lines 254 and 265: the loop condition fails and mask is returned *)
_iter_threshold_exit ==
    /\ pc = "_iter_threshold"
    /\ mask = old_mask
    /\ pc' = "thresholded"
    /\ UNCHANGED <<func, output, data, weights, args, memory, y, x, weight_array, mask,
                   rough_baseline, baseline, coef, old_coef, tol_history, i,
                   power, old_mask, warnings, params,
                   std, median, median_2,
                   peak_starts, peak_ends, cwt_vars,
                   solver_weights>>

(***************************************************************************)
(* Polynomial fitting: np.linalg.lstsq(vander[rows], y[rows]) and          *)
(* np.dot(pinv(vander), y), the minimum-norm least-squares solution, for   *)
(* polynomial orders 0 and 1, and np.dot(vander, coef).                    *)
(***************************************************************************)
lstsq(xs, ys, poly_order) ==
    LET m == Size(xs)
    IN  IF m = 0 THEN [j \in 0..poly_order |-> R(0)]
        ELSE IF poly_order = 0 THEN One(mean(ys))
        ELSE IF m = 1
        THEN LET d == RAdd(R(1), RSq(xs[0]))
             IN  [j \in 0..1 |-> IF j = 0 THEN RDiv(ys[0], d)
                                 ELSE RDiv(RMul(ys[0], xs[0]), d)]
        ELSE LET xm  == mean(xs)
                 ym  == mean(ys)
                 sxy == RSum([k \in DOMAIN xs |->
                                 RMul(RSub(xs[k], xm), RSub(ys[k], ym))])
                 sxx == RSum([k \in DOMAIN xs |-> RSq(RSub(xs[k], xm))])
                 c1  == RDiv(sxy, sxx)
             IN  [j \in 0..1 |-> IF j = 0 THEN RSub(ym, RMul(c1, xm)) ELSE c1]

vander_dot(xx, c) ==
    [k \in DOMAIN xx |->
        IF Size(c) = 1 THEN c[0] ELSE RAdd(c[0], RMul(c[1], xx[k]))]

(* utils.relative_difference(old, new), squared: the squared norm of       *)
(* new - old over the squared norm of old, the latter taken as 1 when 0.   *)
SqNorm(a) == RSum([k \in DOMAIN a |-> RSq(a[k])])

relative_difference(old, new) ==
    LET numerator   == SqNorm([k \in DOMAIN old |-> RSub(new[k], old[k])])
        denominator == IF SqNorm(old) = R(0) THEN R(1) ELSE SqNorm(old)
    IN  RDiv(numerator, denominator)

(* the comparison the other way round *)
BelowTol_reversed(sq, tol) == RSign(tol) > 0 /\ RGt(sq, RSq(tol))

(* calc_difference < tol, with calc_difference held as its square *)
BelowTol(sq, tol) == RSign(tol) > 0 /\ RLt(sq, RSq(tol))

(* utils._convert_coef(coef, original_domain): the coefficients of the     *)
(* same polynomial in the x of the caller, x = domain[0]..domain[1] having *)
(* been mapped onto [-1, 1].                                               *)
_convert_coef(c, domain) ==
    LET width == RSub(domain[2], domain[1])
        mid   == RAdd(domain[2], domain[1])
    IN  IF Size(c) = 1 THEN c
        ELSE [j \in 0..1 |->
                 IF j = 0 THEN RSub(c[0], RDiv(RMul(c[1], mid), width))
                 ELSE RDiv(RMul(R(2), c[1]), width)]

(* an element of np.empty(n) that has not been written *)
Uninit == <<0, -1>>

np_empty(n) == [k \in 0..(n - 1) |-> Uninit]

(***************************************************************************)
(* dietrich                                                                *)
(***************************************************************************)
MaxIter == 3

DietrichArgs ==
    [smooth_half_window : {0}, num_std : {R(1)}, interp_half_window : {0},
     poly_order : {0, 1}, max_iter : 0..MaxIter, tol : {Norm(1, 10)},
     return_coef : BOOLEAN]

(* lines 355-365, up to the first evaluation of _iter_threshold's loop *)
dietrich_begin ==
    /\ func = "dietrich" /\ pc = "call"
    /\ LET yy       == _setup_y(data)
           smooth_y == smoothed(yy, args.smooth_half_window)
           extended == Concat(PySlice(smooth_y, 0, 1), smooth_y)
           pw       == [k \in DOMAIN yy |-> RSq(RSub(extended[k + 1], extended[k]))]
       IN  /\ y' = yy /\ x' = _setup_x(data)
           /\ weight_array' = _setup_weight_array(weights)
           /\ _iter_threshold_enter(pw, args.num_std)
           /\ memory' = bind(_setup_classification_memory, "mask", "local")
    /\ UNCHANGED <<func, output, data, weights, args, rough_baseline, baseline, coef,
                   old_coef, tol_history, i, warnings, params,
                   std, median, median_2,
                   peak_starts, peak_ends, cwt_vars,
                   solver_weights>>

(* tol_history[:i] for tol_history[:i + 1] *)
dietrich_params_short(m, history, last_i, c, looped) ==
    LET p1 == [mask |-> m]
        p2 == IF looped THEN p1 @@ [tol_history |-> PySlice(history, 0, last_i)]
              ELSE p1
    IN  IF args.max_iter > 0 /\ args.return_coef
        THEN p2 @@ [coef |-> _convert_coef(c, <<R(-1), R(1)>>)]
        ELSE p2

(* 'coef' added outside of the test of max_iter *)
dietrich_params_coef(m, history, last_i, c, looped) ==
    LET p1 == [mask |-> m]
        p2 == IF looped THEN p1 @@ [tol_history |-> PySlice(history, 0, last_i + 1)]
              ELSE p1
    IN  IF args.return_coef
        THEN p2 @@ [coef |-> _convert_coef(c, <<R(-1), R(1)>>)]
        ELSE p2

(* params after the loop of lines 377-385 and lines 386-389 *)
dietrich_params(m, history, last_i, c, looped) ==
    LET p1 == [mask |-> m]
        p2 == IF looped THEN p1 @@ [tol_history |-> PySlice(history, 0, last_i + 1)]
              ELSE p1
    IN  IF args.max_iter > 0 /\ args.return_coef
        THEN p2 @@ [coef |-> _convert_coef(c, <<R(-1), R(1)>>)]
        ELSE p2

(* lines 366-376, and lines 388-391 when the refit loop is not entered *)
dietrich_classified ==
    /\ func = "dietrich" /\ pc = "thresholded"
    /\ mask' = And(_remove_single_points(mask), weight_array)
    /\ rough_baseline' = _averaged_interp(x, y, mask', args.interp_half_window)
    /\ warnings' = warnings \cup _averaged_interp_warning(mask')
    /\ memory' = _averaged_interp_memory(bind(memory, "mask", "local"), mask')
    /\ IF args.max_iter > 0
       THEN /\ coef' = lstsq(x, rough_baseline', args.poly_order)
            /\ old_coef' = coef'
            /\ baseline' = vander_dot(x, coef')
       ELSE /\ baseline' = rough_baseline'
            /\ UNCHANGED <<coef, old_coef>>
    /\ IF args.max_iter > 1
       THEN /\ tol_history' = np_empty(args.max_iter - 1)
            /\ i' = 0
            /\ pc' = "refit"
            /\ UNCHANGED params
       ELSE /\ params' = dietrich_params(mask', Empty, 0,
                                          lstsq(x, rough_baseline', args.poly_order),
                                          FALSE)
            /\ pc' = "return"
            /\ UNCHANGED <<tol_history, i>>
    /\ UNCHANGED <<func, output, data, weights, args, y, x, weight_array, power, old_mask,
                   std, median, median_2,
                   peak_starts, peak_ends, cwt_vars,
                   solver_weights>>

(* line 378: rough_baseline[mask] = baseline[mask] *)
dietrich_replace(rb, b, m) == [k \in DOMAIN rb |-> IF m[k] THEN b[k] ELSE rb[k]]

(* lines 377-385: one pass of the refit loop with index i; the pass that   *)
(* breaks, or the last of the range, goes on to lines 386-391.             *)
dietrich_refit ==
    /\ func = "dietrich" /\ pc = "refit"
    /\ rough_baseline' = dietrich_replace(rough_baseline, baseline, mask)
    /\ memory' = write(memory, "rough_baseline")
    /\ coef' = lstsq(x, rough_baseline', args.poly_order)
    /\ baseline' = vander_dot(x, coef')
    /\ tol_history' = [tol_history EXCEPT ![i] = relative_difference(old_coef, coef')]
    /\ LET break == BelowTol(tol_history'[i], args.tol)
       IN  /\ old_coef' = IF break THEN old_coef ELSE coef'
           /\ IF break \/ i + 1 >= args.max_iter - 1
              THEN /\ params' = dietrich_params(mask, tol_history', i, coef', TRUE)
                   /\ pc' = "return"
                   /\ i' = i
              ELSE /\ i' = i + 1
                   /\ UNCHANGED <<params, pc>>
    /\ UNCHANGED <<func, output, data, weights, args, y, x, weight_array, mask, power,
                   old_mask, warnings,
                   std, median, median_2,
                   peak_starts, peak_ends, cwt_vars,
                   solver_weights>>

NextDietrich ==
    \/ dietrich_begin
    \/ _iter_threshold_loop
    \/ _iter_threshold_exit
    \/ dietrich_classified
    \/ dietrich_refit

(***************************************************************************)
(* _rolling_std: Welford's method for a fixed window, loop for loop.  The  *)
(* result is the array before the final np.sqrt, that is, the squares of   *)
(* the rolling standard deviations.                                        *)
(***************************************************************************)
zeros(n) == [k \in 0..(n - 1) |-> R(0)]

(* lines 435-439: the state after the passes 1..k of the first loop *)
RECURSIVE rolling_fill(_, _)
rolling_fill(d, k) ==
    IF k = 0 THEN [squared_diff |-> zeros(Size(d)), mean |-> d[0]]
    ELSE LET s   == rolling_fill(d, k - 1)
             val == d[k]
             size_factor == Norm(k, k + 1)
         IN  [squared_diff |->
                 [s.squared_diff EXCEPT ![k] =
                     RAdd(s.squared_diff[k - 1],
                          RMul(RMul(R(2), size_factor), RSq(RSub(val, s.mean))))],
              mean |-> RAdd(RMul(s.mean, size_factor), RDiv(val, R(k + 1)))]

(* lines 446-453: the state after the passes half_window+1..j *)
RECURSIVE rolling_slide(_, _, _)
rolling_slide(d, half_window, j) ==
    LET window_size == 2 * half_window + 1
    IN  IF j <= half_window
        THEN LET s == rolling_fill(d, window_size - 1)
             IN  [s EXCEPT !.squared_diff[half_window] =
                      RDiv(s.squared_diff[window_size - 1], R(2))]
        ELSE LET s        == rolling_slide(d, half_window, j - 1)
                 old_val  == d[j - half_window - 1]
                 new_val  == d[j + half_window]
                 val_diff == RSub(new_val, old_val)
                 new_mean == RAdd(s.mean, RDiv(val_diff, R(window_size)))
             IN  [squared_diff |->
                     [s.squared_diff EXCEPT ![j] =
                         RAdd(s.squared_diff[j - 1],
                              RMul(val_diff,
                                   RSub(RSub(RAdd(old_val, new_val), s.mean),
                                        new_mean)))],
                  mean |-> new_mean]

(* lines 458-464: the state after the passes num_y-half_window+1..k *)
RECURSIVE rolling_drain(_, _, _)
rolling_drain(d, half_window, k) ==
    LET num_y == Size(d)
    IN  IF k <= num_y - half_window
        THEN rolling_slide(d, half_window, num_y - half_window - 1)
                 @@ [size |-> 2 * half_window + 1]
        ELSE LET s   == rolling_drain(d, half_window, k - 1)
                 val == d[k]
                 size_factor == Norm(s.size, s.size - 1)
             IN  [squared_diff |->
                     [s.squared_diff EXCEPT ![k] =
                         RAdd(s.squared_diff[k - 1],
                              RMul(RMul(R(2), size_factor), RSq(RSub(val, s.mean))))],
                  mean |-> RAdd(RMul(s.mean, size_factor), RDiv(val, R(s.size - 1))),
                  size |-> s.size - 1]

_rolling_std(d, half_window, ddof) ==
    LET s == rolling_drain(d, half_window, Size(d) - 1)
    IN  [k \in DOMAIN d |->
            RDiv(s.squared_diff[k], R(2 * half_window + 1 - ddof))]

(* lines 543 and 655 *)
rolling_std_of(yy, half_window) ==
    PySlice(_rolling_std(pad_reflect(yy, half_window), half_window, 1),
            half_window, -half_window)

(***************************************************************************)
(* np.median of an array of standard deviations held as squares.  The      *)
(* median of an even number of values is the mean of two square roots, so  *)
(* a median is a pair <<a, b>> standing for (sqrt(a) + sqrt(b)) / 2, and   *)
(* <<NaN, NaN>> for the median of an empty array.                          *)
(***************************************************************************)
SortedR(a) ==
    LET rank(k) == Cardinality({j \in DOMAIN a : RLt(a[j], a[k])})
                   + Cardinality({j \in DOMAIN a : j < k /\ a[j] = a[k]})
    IN  [r \in DOMAIN a |-> a[CHOOSE k \in DOMAIN a : rank(k) = r]]

median_of(a) ==
    LET n == Size(a)
        s == SortedR(a)
    IN  IF n = 0 \/ \E k \in DOMAIN a : IsNaN(a[k]) THEN <<NaN, NaN>>
        ELSE IF n % 2 = 1 THEN <<s[n \div 2], s[n \div 2]>>
        ELSE <<s[n \div 2 - 1], s[n \div 2]>>

MedIsNaN(m) == IsNaN(m[1]) \/ IsNaN(m[2])

(* sqrt(c) + sqrt(d) < k * (sqrt(a) + sqrt(b)) for k >= 0 and finite       *)
(* a, b, c, d >= 0, by squaring twice.                                     *)
SumLt(c, d, k, a, b) ==
    LET k2 == RSq(k)
        T  == RSub(RMul(k2, RAdd(a, b)), RAdd(c, d))
        P  == RMul(R(4), RMul(c, d))
        Q  == RMul(RMul(R(4), RSq(k2)), RMul(a, b))
    IN  IF RSign(T) >= 0
        THEN LtRoot(RSub(RSub(P, RSq(T)), Q), RMul(R(2), T), Q)
        ELSE /\ RLt(RSq(T), Q)
             /\ GtRoot(RSub(RAdd(Q, RSq(T)), P), RMul(R(-2), T), Q)

(* sqrt(s) < k * m for a median m, k >= 0 *)
RootLtMed(s, k, m) ==
    ~IsNaN(s) /\ ~MedIsNaN(m) /\ SumLt(s, R(0), RDiv(k, R(2)), m[1], m[2])

(* sqrt(s) > k * m for a median m, k > 0 *)
RootGtMed(s, k, m) ==
    ~IsNaN(s) /\ ~MedIsNaN(m) /\ SumLt(m[1], m[2], RDiv(R(2), k), s, R(0))

MedIsZero(m) == m = <<R(0), R(0)>>

(* m2 / m < k for medians m2 and m and 0 < k < 1: x / 0 is inf or NaN and  *)
(* compares False.  The ratio is compared with 1 and with 9/10 before it   *)
(* is compared with k, which keeps the numbers small.                      *)
MedRatioLt(m2, m, k) ==
    IF MedIsNaN(m2) \/ MedIsNaN(m) \/ MedIsZero(m) THEN FALSE
    ELSE IF ~SumLt(m2[1], m2[2], R(1), m[1], m[2]) THEN FALSE
    ELSE IF RLe(Norm(9, 10), k) /\ SumLt(m2[1], m2[2], Norm(9, 10), m[1], m[2])
    THEN TRUE
    ELSE SumLt(m2[1], m2[2], k, m[1], m[2])

(***************************************************************************)
(* std_distribution                                                        *)
(***************************************************************************)
(* line 546 with 0.5 for 0.999 *)
NoiseRatioHalf == Norm(1, 2)

(* line 546: the exit ratio of the noise loop *)
NoiseRatio == Norm(999, 1000)

StdDistributionArgs ==
    [half_window : {1}, interp_half_window : {0}, fill_half_window : {0, 1},
     num_std : {R(1), Norm(11, 10)}, smooth_half_window : {0}]

(* std[std < 2 * median] *)
lower_half(s, m) == Masked(s, [k \in DOMAIN s |-> RootLtMed(s[k], R(2), m)])

(* lines 533-545 *)
std_distribution_begin ==
    /\ func = "std_distribution" /\ pc = "call"
    /\ y' = _setup_y(data)
    /\ x' = _setup_x(data)
    /\ weight_array' = _setup_weight_array(weights)
    /\ memory' = _setup_classification_memory
    /\ std' = rolling_std_of(y', args.half_window)
    /\ median' = median_of(std')
    /\ median_2' = median_of(lower_half(std', median'))
    /\ pc' = "noise_loop"
    /\ UNCHANGED <<func, output, data, weights, args, mask, rough_baseline, baseline,
                   coef, old_coef, tol_history, i, power, old_mask, warnings,
                   params,
                   peak_starts, peak_ends, cwt_vars,
                   solver_weights>>

(* lines 546-548: one pass of the noise loop *)
std_distribution_noise ==
    /\ func = "std_distribution" /\ pc = "noise_loop"
    /\ MedRatioLt(median_2, median, NoiseRatio)
    /\ median' = median_2
    /\ median_2' = median_of(lower_half(std, median_2))
    /\ UNCHANGED <<func, output, data, weights, args, memory, pc, y, x, weight_array, mask,
                   rough_baseline, baseline, coef, old_coef, tol_history, i,
                   power, old_mask, warnings, params, std,
                   peak_starts, peak_ends, cwt_vars,
                   solver_weights>>

(* lines 553-556 with lone points removed from the mask *)
std_distribution_mask_cleaned(s, noise_std, wa, a) ==
    And(_remove_single_points(
            Not(binary_dilation(
                    [k \in DOMAIN s |-> RootGtMed(s[k], a.num_std, noise_std)],
                    ones(2 * a.fill_half_window + 1)))),
        wa)

(* lines 553-556 *)
std_distribution_mask(s, noise_std, wa, a) ==
    LET peaks == [k \in DOMAIN s |-> RootGtMed(s[k], a.num_std, noise_std)]
    IN  And(Not(binary_dilation(peaks, ones(2 * a.fill_half_window + 1))), wa)

(* lines 546 and 549-565: the loop condition fails; np.logical_and raises  *)
(* ValueError for shapes that do not broadcast                             *)
std_distribution_finish ==
    /\ func = "std_distribution" /\ pc = "noise_loop"
    /\ ~MedRatioLt(median_2, median, NoiseRatio)
    /\ IF Broadcasts(std, weight_array)
       THEN /\ mask' = std_distribution_mask(std, median_2, weight_array, args)
            /\ rough_baseline' =
                   _averaged_interp(x, y, mask', args.interp_half_window)
            /\ baseline' = smoothed(rough_baseline', args.smooth_half_window)
            /\ warnings' = warnings \cup _averaged_interp_warning(mask')
            /\ params' = [mask |-> mask']
            /\ memory' = _averaged_interp_memory(bind(memory, "mask", "local"),
                                                 mask')
            /\ pc' = "return"
       ELSE /\ pc' = "raise"
            /\ UNCHANGED <<mask, rough_baseline, baseline, warnings, params,
                           memory>>
    /\ UNCHANGED <<func, output, data, weights, args, y, x, weight_array, coef, old_coef,
                   tol_history, i, power, old_mask, std, median, median_2,
                   peak_starts, peak_ends, cwt_vars,
                   solver_weights>>

NextStdDistribution ==
    \/ std_distribution_begin
    \/ std_distribution_noise
    \/ std_distribution_finish

(***************************************************************************)
(* fastchrom                                                               *)
(***************************************************************************)
MaxPasses == 2

FastchromArgs ==
    [half_window : {1}, threshold : {R(1), Norm(3, 2)}, min_fwhm : {1},
     interp_half_window : {0}, smooth_half_window : {0},
     max_iter : {0, MaxPasses}]

(* np.argmin: the first index of the smallest value *)
argmin(a) ==
    CHOOSE k \in DOMAIN a :
        /\ \A j \in DOMAIN a : RLe(a[k], a[j])
        /\ \A j \in DOMAIN a : j < k => RLt(a[k], a[j])

(* lines 673-683 with >= for > in the test of line 679 *)
fastchrom_segment_inclusive(m, rb, yy, start, end, min_fwhm) ==
    LET section_mask == [k \in DOMAIN PySlice(yy, start, end + 1) |->
                            RLt(PySlice(rb, start, end + 1)[k],
                                PySlice(yy, start, end + 1)[k])]
        segs == _find_peak_segments(section_mask)
        lowest == argmin([k \in DOMAIN section_mask |->
                             RSub(PySlice(yy, start, end + 1)[k],
                                  PySlice(rb, start, end + 1)[k])])
    IN  IF \E k \in DOMAIN segs[1] : segs[2][k] - segs[1][k] >= min_fwhm
        THEN [modified |-> TRUE, mask |-> [m EXCEPT ![lowest + start] = TRUE]]
        ELSE [modified |-> FALSE, mask |-> m]

(* lines 673-683 for the segment start..end: the mask after it, or the     *)
(* mask unchanged when no run of the section is longer than min_fwhm       *)
fastchrom_segment(m, rb, yy, start, end, min_fwhm) ==
    LET baseline_section == PySlice(rb, start, end + 1)
        data_section     == PySlice(yy, start, end + 1)
        section_mask == [k \in DOMAIN data_section |->
                            RLt(baseline_section[k], data_section[k])]
        segs == _find_peak_segments(section_mask)
        lowest == argmin([k \in DOMAIN data_section |->
                             RSub(data_section[k], baseline_section[k])])
    IN  IF \E k \in DOMAIN segs[1] : segs[2][k] - segs[1][k] > min_fwhm
        THEN [modified |-> TRUE, mask |-> [m EXCEPT ![lowest + start] = TRUE]]
        ELSE [modified |-> FALSE, mask |-> m]

(* lines 671-683: the inner loop over the segments k.. *)
RECURSIVE fastchrom_segments(_, _, _, _, _, _, _, _)
fastchrom_segments(m, modified, rb, yy, starts, ends, min_fwhm, k) ==
    IF k >= Min2(Size(starts), Size(ends)) THEN [modified |-> modified, mask |-> m]
    ELSE LET r == fastchrom_segment(m, rb, yy, starts[k], ends[k], min_fwhm)
         IN  fastchrom_segments(r.mask, modified \/ r.modified, rb, yy, starts,
                                ends, min_fwhm, k + 1)

(* std < threshold, std held as its square *)
fastchrom_threshold(s, threshold) ==
    [k \in DOMAIN s |-> LtRoot(RNeg(threshold), R(-1), s[k])]

(* lines 643-669; the & of line 663 raises ValueError for shapes that do   *)
(* not broadcast                                                           *)
fastchrom_begin ==
    /\ func = "fastchrom" /\ pc = "call"
    /\ y' = _setup_y(data)
    /\ x' = _setup_x(data)
    /\ weight_array' = _setup_weight_array(weights)
    /\ std' = rolling_std_of(y', args.half_window)
    /\ IF Broadcasts(std', weight_array')
       THEN /\ mask' = And(_remove_single_points(
                               fastchrom_threshold(std', args.threshold)),
                           weight_array')
            /\ rough_baseline' =
                   _averaged_interp(x', y', mask', args.interp_half_window)
            /\ warnings' = warnings \cup _averaged_interp_warning(mask')
            /\ memory' = _averaged_interp_memory(
                             bind(_setup_classification_memory, "mask", "local"),
                             mask')
            /\ LET mask_sum == CountTrue(mask')
                   segs == _find_peak_segments(mask')
                   enter == mask_sum # 0 /\ mask_sum # Size(mask')
               IN  /\ peak_starts' = IF enter THEN segs[1] ELSE peak_starts
                   /\ peak_ends' = IF enter THEN segs[2] ELSE peak_ends
                   /\ pc' = IF enter /\ args.max_iter > 0
                            THEN "post_pass" ELSE "post_done"
       ELSE /\ pc' = "raise"
            /\ memory' = _setup_classification_memory
            /\ UNCHANGED <<mask, rough_baseline, warnings, peak_starts,
                           peak_ends>>
    /\ i' = 0
    /\ UNCHANGED <<func, output, data, weights, args, baseline, coef, old_coef,
                   tol_history, power, old_mask, params, median, median_2, cwt_vars,
                   solver_weights>>

(* lines 670-689: one pass of the post-pass *)
fastchrom_pass ==
    /\ func = "fastchrom" /\ pc = "post_pass"
    /\ LET r == fastchrom_segments(mask, FALSE, rough_baseline, y, peak_starts,
                                   peak_ends, args.min_fwhm, 0)
       IN  /\ mask' = r.mask
           /\ IF r.modified
              THEN /\ rough_baseline' =
                          _averaged_interp(x, y, mask', args.interp_half_window)
                   /\ warnings' = warnings \cup _averaged_interp_warning(mask')
                   /\ memory' = _averaged_interp_memory(write(memory, "mask"),
                                                        mask')
                   /\ pc' = IF i + 1 < args.max_iter THEN "post_pass" ELSE "post_done"
              ELSE /\ pc' = "post_done"
                   /\ UNCHANGED <<rough_baseline, warnings, memory>>
    /\ i' = i + 1
    /\ UNCHANGED <<func, output, data, weights, args, y, x, weight_array, baseline, coef,
                   old_coef, tol_history, power, old_mask, params, std, median,
                   median_2, peak_starts, peak_ends, cwt_vars,
                   solver_weights>>

(* lines 693-698 *)
fastchrom_finish ==
    /\ func = "fastchrom" /\ pc = "post_done"
    /\ baseline' = smoothed(rough_baseline, args.smooth_half_window)
    /\ params' = [mask |-> mask]
    /\ pc' = "return"
    /\ UNCHANGED <<func, output, data, weights, args, memory, y, x, weight_array, mask,
                   rough_baseline, coef, old_coef, tol_history, i, power,
                   old_mask, warnings, std, median, median_2, peak_starts,
                   peak_ends, cwt_vars,
                   solver_weights>>

NextFastchrom ==
    \/ fastchrom_begin
    \/ fastchrom_pass
    \/ fastchrom_finish

(***************************************************************************)
(* cwt_br                                                                  *)
(*                                                                         *)
(* scipy's cwt with the ricker wavelet, the logarithm of the Shannon       *)
(* entropy and the histogram fit of lines 799-827 are functions of the     *)
(* data that are not computed here.  Their two results that the rest of    *)
(* the function uses are drawn with the data: shannon_entropy[s], the      *)
(* entropy of the transform at scale s, and below_sigma, the array         *)
(* abs_wavelet < num_sigma * sigma_opt of line 833.                        *)
(***************************************************************************)
MaxFits == 2

MaxScale == 5

Entropies == {R(1), R(2)}

(* np.polynomial.polyutils.getdomain(y) for real y *)
getdomain(a) == <<RMin({a[k] : k \in DOMAIN a}), RMax({a[k] : k \in DOMAIN a})>>

(* np.polynomial.polyutils.mapdomain(a, old, new) *)
mapdomain(a, old, new) ==
    LET off == RDiv(RSub(RMul(old[2], new[1]), RMul(old[1], new[2])),
                    RSub(old[2], old[1]))
        scl == RDiv(RSub(new[2], new[1]), RSub(old[2], old[1]))
    IN  [k \in DOMAIN a |-> RAdd(off, RMul(scl, a[k]))]

(* line 773 *)
rescale(yy) == mapdomain(yy, getdomain(yy), <<R(-1), R(1)>>)

HasNaN(a) == \E k \in DOMAIN a : IsNaN(a[k])

(* line 784 *)
min_scale(n) == Max2(2, n \div 500)

(* lines 832-835, before the & with weight_array *)
eroded(below, mask_half_window) ==
    PySlice(binary_erosion(pad_reflect(below, mask_half_window),
                           ones(2 * mask_half_window + 1)),
            mask_half_window, -mask_half_window)

(* lines 832-835 *)
wavelet_mask(below, mask_half_window, wa) ==
    And(eroded(below, mask_half_window), wa)

(* lines 842-845: the mask without the points lying more than num_std      *)
(* standard deviations above the fit through the mask                      *)
drop_above(m, xx, yy, poly_order, num_std) ==
    LET first_coef == lstsq(Masked(xx, m), Masked(yy, m), poly_order)
        first_fit  == vander_dot(xx, first_coef)
        residual   == [k \in DOMAIN yy |-> RSub(yy[k], first_fit[k])]
        spread     == variance(residual, 0)
    IN  [k \in DOMAIN m |-> m[k] /\ ~GtRoot(residual[k], num_std, spread)]

(* line 837 *)
check_win(n) == ones(2 * (n \div 200) + 1)

(* lines 860-861 *)
readmit(m, yy, b) ==
    Or(m, binary_erosion([k \in DOMAIN yy |-> RLt(yy[k], b[k])], check_win(Size(yy))))

(* lines 769-784; an empty range of scales leaves wavelet_cwt unbound at    *)
(* line 799                                                                *)
cwt_br_begin ==
    /\ func = "cwt_br" /\ pc = "call"
    /\ y' = rescale(_setup_y(data))
    /\ x' = _setup_x(data)
    /\ weight_array' = _setup_weight_array(weights)
    /\ memory' = bind(_setup_classification_memory, "y", "local")
    /\ shannon_old' = RNeg(Inf)
    /\ shannon_current' = RNeg(Inf)
    /\ scale' = min_scale(Size(data))
    /\ pc' = IF min_scale(Size(data)) > args.max_scale THEN "raise" ELSE "sweep"
    /\ UNCHANGED <<func, output, data, weights, args, mask, rough_baseline, baseline,
                   coef, old_coef, tol_history, i, power, old_mask, warnings,
                   params, std, median, median_2, peak_starts, peak_ends,
                   baseline_old, shannon_entropy, below_sigma,
                   solver_weights>>

(* lines 785-797: the body of the sweep for one scale *)
cwt_br_scale ==
    /\ func = "cwt_br" /\ pc = "sweep"
    /\ IF RLt(shannon_current, shannon_old)
          /\ RGt(shannon_entropy[scale], shannon_current)
       THEN /\ pc' = "swept"
            /\ UNCHANGED <<scale, shannon_old, shannon_current>>
       ELSE /\ shannon_old' = shannon_current
            /\ shannon_current' = shannon_entropy[scale]
            /\ IF scale < args.max_scale
               THEN scale' = scale + 1 /\ pc' = "sweep"
               ELSE scale' = scale /\ pc' = "swept"
    /\ UNCHANGED <<func, output, data, weights, args, memory, y, x, weight_array, mask,
                   rough_baseline, baseline, coef, old_coef, tol_history, i,
                   power, old_mask, warnings, params, std, median, median_2,
                   peak_starts, peak_ends, baseline_old, shannon_entropy,
                   below_sigma,
                   solver_weights>>

(* lines 799-840; np.histogram raises ValueError for a transform that is   *)
(* not finite, and the & of line 835 for shapes that do not broadcast      *)
cwt_br_threshold ==
    /\ func = "cwt_br" /\ pc = "swept"
    /\ IF \/ HasNaN(y)
          \/ ~Broadcasts(eroded(below_sigma, args.mask_half_window), weight_array)
       THEN /\ pc' = "raise"
            /\ UNCHANGED <<mask, baseline_old, tol_history, i, memory>>
       ELSE /\ mask' = wavelet_mask(below_sigma, args.mask_half_window, weight_array)
            /\ memory' = bind(memory, "mask", np_copy("local"))
            /\ baseline_old' = y
            /\ tol_history' = np_empty(args.max_iter + 1)
            /\ i' = 0
            /\ pc' = "fit"
    /\ UNCHANGED <<func, output, data, weights, args, y, x, weight_array,
                   rough_baseline, baseline, coef, old_coef, power, old_mask,
                   warnings, params, std, median, median_2, peak_starts,
                   peak_ends, scale, shannon_old, shannon_current,
                   shannon_entropy, below_sigma,
                   solver_weights>>

(* tol_history[:i] for tol_history[:i + 1] *)
cwt_br_params_short(m, history, last_i, s) ==
    [mask |-> m, tol_history |-> PySlice(history, 0, last_i), best_scale |-> s]

(* lines 864-866 *)
cwt_br_params(m, history, last_i, s) ==
    [mask |-> m, tol_history |-> PySlice(history, 0, last_i + 1), best_scale |-> s]

(* lines 842-845: the first half of one pass of the fit loop *)
cwt_br_drop ==
    /\ func = "cwt_br" /\ pc = "fit"
    /\ mask' = drop_above(mask, x, y, args.poly_order, args.num_std)
    /\ memory' = write(memory, "mask")
    /\ pc' = "refit"
    /\ UNCHANGED <<func, output, data, weights, args, y, x, weight_array,
                   rough_baseline, baseline, coef, old_coef, tol_history, i,
                   power, old_mask, warnings, params, std, median, median_2,
                   peak_starts, peak_ends, cwt_vars,
                   solver_weights>>

(* lines 852-861: the second half of the pass, and lines 864-868 after the *)
(* last pass                                                               *)
cwt_br_refit ==
    /\ func = "cwt_br" /\ pc = "refit"
    /\ coef' = lstsq(Masked(x, mask), Masked(y, mask), args.poly_order)
    /\ baseline' = vander_dot(x, coef')
    /\ tol_history' =
           [tol_history EXCEPT ![i] = relative_difference(baseline_old, baseline')]
    /\ IF BelowTol(tol_history'[i], args.tol)
       THEN /\ params' = cwt_br_params(mask, tol_history', i, scale)
            /\ pc' = "return"
            /\ UNCHANGED <<mask, baseline_old, i, memory>>
       ELSE /\ mask' = readmit(mask, y, baseline')
            /\ memory' = write(memory, "mask")
            /\ baseline_old' = baseline'
            /\ IF i < args.max_iter
               THEN i' = i + 1 /\ pc' = "fit" /\ UNCHANGED params
               ELSE /\ params' = cwt_br_params(mask', tol_history', i, scale)
                    /\ pc' = "return"
                    /\ UNCHANGED i
    /\ UNCHANGED <<func, output, data, weights, args, y, x, weight_array,
                   rough_baseline, old_coef, power, old_mask, warnings, std,
                   median, median_2, peak_starts, peak_ends, scale,
                   shannon_old, shannon_current, shannon_entropy, below_sigma,
                   solver_weights>>

NextCwtBr ==
    \/ cwt_br_begin
    \/ cwt_br_scale
    \/ cwt_br_threshold
    \/ cwt_br_drop
    \/ cwt_br_refit

CwtBrArgs ==
    [poly_order : {0, 1}, num_std : {R(1)}, max_scale : {2},
     mask_half_window : {1}, max_iter : {0, MaxFits}, tol : {Norm(1, 10)}]

CwtBrSweepArgs ==
    [poly_order : {1}, num_std : {R(1)}, max_scale : 1..MaxScale,
     mask_half_window : {1}, max_iter : {0}, tol : {Norm(1, 10)}]

(***************************************************************************)
(* fabc                                                                    *)
(***************************************************************************)
(* _haar(num_points, scale) before the division by np.sqrt(scale); x_vals  *)
(* is compared doubled, 2 * k - (num_points - 1)                           *)
_haar(num_points, s) ==
    [k \in 0..(num_points - 1) |->
        LET x2 == 2 * k - (num_points - 1)
        IN  IF x2 > -s /\ x2 < 0 THEN 1
            ELSE IF x2 < s /\ x2 > 0 THEN -1
            ELSE 0]

RECURSIVE ConvolveAt(_, _, _, _)
ConvolveAt(a, w, n, j) ==
    IF j < 0 THEN R(0)
    ELSE RAdd(ConvolveAt(a, w, n, j - 1),
              IF n - j \in DOMAIN w THEN RMul(a[j], R(w[n - j])) ELSE R(0))

(* scipy.signal.convolve(a, w, mode='same') for Size(w) <= Size(a) *)
convolve_same(a, w) ==
    LET first == (Size(w) - 1) \div 2
    IN  [n \in DOMAIN a |-> ConvolveAt(a, w, n + first, Size(a) - 1)]

(* scipy.signal.cwt(a, _haar, [s])[0] times np.sqrt(s) *)
cwt_haar(a, s) ==
    LET num_points == Min2(10 * s, Size(a))
        wavelet == _haar(num_points, s)
        wavelet_data == [k \in DOMAIN wavelet |-> wavelet[num_points - 1 - k]]
    IN  convolve_same(a, wavelet_data)

(* lines 966-968; the square of the factor 1 / np.sqrt(scale) is 1 / scale *)
haar_power(yy, s) ==
    LET half_window == 2 * s
        wavelet_cwt == cwt_haar(pad_edges(yy, half_window), s)
        inner == PySlice(wavelet_cwt, half_window, -half_window)
    IN  [k \in DOMAIN inner |-> RDiv(RSq(inner[k]), R(s))]

(***************************************************************************)
(* _algorithm_setup._whittaker_smooth(y, lam, diff_order, weights): the    *)
(* solution z of (lam * D'D + diag(weights)) z = weights * y, D being the  *)
(* difference matrix of the order, by a factorization that fails when the  *)
(* matrix is not positive-definite.                                        *)
(***************************************************************************)
RECURSIVE Binomial(_, _)
Binomial(n, k) ==
    IF k = 0 \/ k = n THEN 1 ELSE Binomial(n - 1, k - 1) + Binomial(n - 1, k)

(* row r of the difference matrix of the order on n points *)
difference_matrix(n, order) ==
    [r \in 0..(n - order - 1) |->
        [c \in 0..(n - 1) |->
            IF c - r \in 0..order
            THEN (IF (order - (c - r)) % 2 = 0 THEN 1 ELSE -1) * Binomial(order, c - r)
            ELSE 0]]

RECURSIVE IntSumTo(_, _)
IntSumTo(f, k) == IF k < 0 THEN 0 ELSE IntSumTo(f, k - 1) + f[k]

penalty(n, order) ==
    LET D == difference_matrix(n, order)
    IN  [r \in 0..(n - 1) |->
            [c \in 0..(n - 1) |->
                IntSumTo([q \in DOMAIN D |-> D[q][r] * D[q][c]], Size(D) - 1)]]

(***************************************************************************)
(* _banded_utils.diff_penalty_diagonals and _pad_diagonals, and the        *)
(* reference the tests compare them with.  A banded array is a function    *)
(* from the row 0..rows-1 to the diagonal held there; the diagonal `offset`*)
(* above the main one holds A[j - offset][j] at column j and zero where    *)
(* that row does not exist, as scipy's dia_matrix.data does.               *)
(***************************************************************************)

(* the interior values of the closed forms alone, without the values at    *)
(* the ends of the diagonals                                               *)
Stencil_interior ==
    << << <<2>>, <<-1>> >>,
       << <<6>>, <<-4>>, <<1>> >>,
       << <<20>>, <<-15>>, <<6>>, <<-1>> >> >>

(* the closed forms of orders 1 to 3: Stencil[order][d + 1] holds the      *)
(* values of the diagonal d away from the main one by distance from the    *)
(* nearer end of the diagonal; the last value repeats through the interior *)
Stencil ==
    << << <<1, 2>>, <<-1>> >>,
       << <<1, 5, 6>>, <<-2, -4>>, <<1>> >>,
       << <<1, 10, 19, 20>>, <<-3, -12, -15>>, <<3, 6>>, <<-1>> >> >>

(* the diagonal `offset` of the closed form of the order on data_size      *)
(* points; order 0 is the identity                                         *)
_diff_diags(data_size, diff_order, offset) ==
    [j \in 0..(data_size - 1) |->
        IF j - offset \notin 0..(data_size - 1) THEN 0
        ELSE IF diff_order = 0 THEN 1
        ELSE Stencil[diff_order][Abs(offset) + 1][
                 Min2(Min2(Min2(j, j - offset),
                         data_size - 1 - Abs(offset) - Min2(j, j - offset)),
                     Len(Stencil[diff_order][Abs(offset) + 1]) - 1) + 1]]

(* (diff_matrix.T @ diff_matrix).todia().data[::-1], the diagonals of the  *)
(* dense product from the top-right one to the bottom-left one             *)
todia_data_reversed(A, diff_order) ==
    [r \in 0..(2 * diff_order) |->
        [j \in DOMAIN A |->
            IF j - (diff_order - r) \in DOMAIN A
            THEN A[j - (diff_order - r)][j] ELSE 0]]

(* diagonals[first:] *)
from_row(diagonals, first) ==
    [r \in 0..(Size(diagonals) - first - 1) |-> diagonals[r + first]]

(* padding all-zero diagonals after the diagonals, and before them too     *)
(* unless lower_only; nothing when padding <= 0                            *)
_pad_diagonals(diagonals, padding, lower_only, data_size) ==
    IF padding <= 0 THEN diagonals
    ELSE [r \in 0..(Size(diagonals) + (IF lower_only THEN 1 ELSE 2) * padding - 1) |->
             IF (r - (IF lower_only THEN 0 ELSE padding)) \in DOMAIN diagonals
             THEN diagonals[r - (IF lower_only THEN 0 ELSE padding)]
             ELSE [j \in 0..(data_size - 1) |-> 0]]

(* the rejection of a negative order alone *)
invalid_order(data_size, diff_order) == diff_order < 0

(* the arguments diff_penalty_diagonals rejects with a ValueError *)
invalid_size(data_size, diff_order) == diff_order < 0 \/ data_size <= 0

(* the closed forms serve orders 0 to 3 on more than 2 * diff_order        *)
(* points; everything else goes through the dense product                  *)
diff_penalty_diagonals(data_size, diff_order, lower_only, padding) ==
    _pad_diagonals(
        from_row(
            IF data_size <= 2 * diff_order \/ diff_order > 3
            THEN todia_data_reversed(penalty(data_size, diff_order), diff_order)
            ELSE [r \in 0..(2 * diff_order) |->
                     _diff_diags(data_size, diff_order, diff_order - r)],
            IF lower_only THEN diff_order ELSE 0),
        padding, lower_only, data_size)

(* entry j of the diagonal `offset` of D^T D, summed over the rows of the  *)
(* explicit difference matrix D                                            *)
diagonal_entry(D, data_size, offset, j) ==
    IF j - offset \in 0..(data_size - 1)
    THEN IntSumTo([q \in DOMAIN D |-> D[q][j - offset] * D[q][j]], Size(D) - 1)
    ELSE 0

(* test_diff_penalty_diagonals: the array the function is compared with *)
expected_diagonals(data_size, diff_order, lower_only, padding) ==
    [r \in 0..((IF lower_only THEN 1 ELSE 2) * (diff_order + (IF padding > 0 THEN padding ELSE 0))) |->
        [j \in 0..(data_size - 1) |->
            IF lower_only
            THEN IF r <= diff_order
                 THEN diagonal_entry(difference_matrix(data_size, diff_order),
                                     data_size, -r, j)
                 ELSE 0
            ELSE IF r - (IF padding > 0 THEN padding ELSE 0) \in 0..(2 * diff_order)
                 THEN diagonal_entry(difference_matrix(data_size, diff_order),
                                     data_size,
                                     diff_order - (r - (IF padding > 0 THEN padding ELSE 0)), j)
                 ELSE 0]]

(***************************************************************************)
(* _banded_utils._add_diagonals, _shift_rows and _lower_to_full.           *)
(***************************************************************************)

Columns(a) == IF Size(a) = 0 THEN 0 ELSE Size(a[0])

(* np.pad(a, ((before, after), (0, 0))): rows of zeros around the array *)
pad_rows(a, before, after) ==
    [r \in 0..(Size(a) + before + after - 1) |->
        IF r - before \in DOMAIN a THEN a[r - before]
        ELSE [j \in 0..(Columns(a) - 1) |-> 0]]

(* a + b of two arrays of one shape *)
add(a, b) == [r \in DOMAIN a |-> [j \in DOMAIN a[r] |-> a[r][j] + b[r][j]]]

(* the test of the number of columns alone *)
columns_differ(a, b, lower_only) == Columns(a) # Columns(b)

(* the pairs _add_diagonals rejects with a ValueError: another number of   *)
(* columns, or, for full bands, a number of rows that differs by an odd    *)
(* number, so that the narrower band cannot stay centred                   *)
add_diagonals_invalid(a, b, lower_only) ==
    \/ Columns(a) # Columns(b)
    \/ ~lower_only /\ Abs(Size(a) - Size(b)) % 2 = 1

(* the narrower band gets rows of zeros, below it when lower_only and on   *)
(* both sides otherwise, and the two are added                             *)
_add_diagonals(a, b, lower_only) ==
    IF Size(a) = Size(b) THEN add(a, b)
    ELSE IF Size(a) > Size(b)
    THEN add(a, pad_rows(b,
                 IF lower_only THEN 0 ELSE (Size(a) - Size(b)) \div 2,
                 IF lower_only THEN Size(a) - Size(b) ELSE (Size(a) - Size(b)) \div 2))
    ELSE add(pad_rows(a,
                 IF lower_only THEN 0 ELSE (Size(b) - Size(a)) \div 2,
                 IF lower_only THEN Size(b) - Size(a) ELSE (Size(b) - Size(a)) \div 2),
             b)

(* the rows above the main diagonal moved right and the rows below it      *)
(* moved left by their distance from it, zeros filling the places left     *)
_shift_rows(matrix, upper, lower) ==
    [r \in DOMAIN matrix |->
        [j \in DOMAIN matrix[r] |->
            IF r < upper
            THEN IF j - (upper - r) \in DOMAIN matrix[r]
                 THEN matrix[r][j - (upper - r)] ELSE 0
            ELSE IF r >= Size(matrix) - lower
            THEN IF j + (r - (Size(matrix) - lower) + 1) \in DOMAIN matrix[r]
                 THEN matrix[r][j + (r - (Size(matrix) - lower) + 1)] ELSE 0
            ELSE matrix[r][j]]]

(* the rows below the main diagonal in reverse order, then the band *)
mirrored(ab) ==
    [r \in 0..(2 * Size(ab) - 2) |->
        IF r < Size(ab) - 1 THEN ab[Size(ab) - 1 - r] ELSE ab[r - (Size(ab) - 1)]]

(* the mirror without the shift of the rows *)
_lower_to_full_unshifted(ab) == mirrored(ab)

(* the upper rows are the lower ones mirrored and moved right *)
_lower_to_full(ab) == _shift_rows(mirrored(ab), Size(ab) - 1, 0)

(* elimination without pivoting of the columns k.. of the system A z = b;  *)
(* a pivot that is not positive shows A is not positive-definite           *)
RECURSIVE eliminate(_, _, _)
eliminate(A, b, k) ==
    IF k = Size(b) THEN [ok |-> TRUE, A |-> A, b |-> b]
    ELSE IF RSign(A[k][k]) <= 0 THEN [ok |-> FALSE, A |-> A, b |-> b]
    ELSE LET factor == [r \in DOMAIN b |-> RDiv(A[r][k], A[k][k])]
         IN  eliminate(
                 [r \in DOMAIN b |->
                     IF r <= k THEN A[r]
                     ELSE [c \in DOMAIN b |->
                              RSub(A[r][c], RMul(factor[r], A[k][c]))]],
                 [r \in DOMAIN b |->
                     IF r <= k THEN b[r] ELSE RSub(b[r], RMul(factor[r], b[k]))],
                 k + 1)

(* back substitution: z[k..] known, the rows above are solved in turn *)
RECURSIVE substitute(_, _, _, _)
substitute(A, b, z, k) ==
    IF k < 0 THEN z
    ELSE LET known == RSum([c \in DOMAIN b |->
                               IF c > k THEN RMul(A[k][c], z[c]) ELSE R(0)])
         IN  substitute(A, b, [z EXCEPT ![k] = RDiv(RSub(b[k], known), A[k][k])],
                        k - 1)

_whittaker_smooth(yy, lam, diff_order, w) ==
    LET n == Size(yy)
        P == penalty(n, diff_order)
        A == [r \in DOMAIN yy |->
                 [c \in DOMAIN yy |->
                     RAdd(RMul(lam, R(P[r][c])), IF r = c THEN w[r] ELSE R(0))]]
        b == [r \in DOMAIN yy |-> RMul(w[r], yy[r])]
        reduced == eliminate(A, b, 0)
    IN  IF reduced.ok
        THEN [ok |-> TRUE, weights |-> w,
              baseline |-> substitute(reduced.A, reduced.b, zeros(n), n - 1)]
        ELSE [ok |-> FALSE, weights |-> w, baseline |-> Empty]

(* mask.astype(float) *)
astype_float(m) == [k \in DOMAIN m |-> IF m[k] THEN R(1) ELSE R(0)]

FabcArgs ==
    [lam : {R(1)}, scale : {2, 3}, num_std : {R(1)}, diff_order : {1, 2}]

(* lines 960-970, up to the first evaluation of _iter_threshold's loop *)
fabc_begin ==
    /\ func = "fabc" /\ pc = "call"
    /\ y' = _setup_y(data)
    /\ weight_array' = _setup_weight_array(weights)
    /\ memory' = bind(_setup_classification_memory, "mask", "local")
    /\ _iter_threshold_enter(haar_power(_setup_y(data), args.scale), args.num_std)
    /\ UNCHANGED <<func, output, data, weights, args, x, rough_baseline, baseline, coef,
                   old_coef, tol_history, i, warnings, params, std, median,
                   median_2, peak_starts, peak_ends, cwt_vars, solver_weights>>

(* lines 971-981 *)
fabc_classified ==
    /\ func = "fabc" /\ pc = "thresholded"
    /\ mask' = And(_remove_single_points(mask), weight_array)
    /\ memory' = bind(memory, "mask", "local")
    /\ solver_weights' = astype_float(mask')
    /\ LET smooth == _whittaker_smooth(y, args.lam, args.diff_order, solver_weights')
       IN  IF smooth.ok
           THEN /\ baseline' = smooth.baseline
                /\ params' = [mask |-> mask', weights |-> smooth.weights]
                /\ pc' = "return"
           ELSE /\ pc' = "raise"
                /\ UNCHANGED <<baseline, params>>
    /\ UNCHANGED <<func, output, data, weights, args, y, x, weight_array,
                   rough_baseline, coef, old_coef, tol_history, i, power,
                   old_mask, warnings, std, median, median_2, peak_starts,
                   peak_ends, cwt_vars>>

NextFabc ==
    \/ fabc_begin
    \/ _iter_threshold_loop
    \/ _iter_threshold_exit
    \/ fabc_classified

(***************************************************************************)
(* Specifications.                                                         *)
(***************************************************************************)
InitLocals ==
    /\ pc = "call"
    /\ y = Empty /\ x = Empty /\ weight_array = Empty
    /\ mask = Empty /\ rough_baseline = Empty /\ baseline = Empty
    /\ coef = Empty /\ old_coef = Empty /\ tol_history = Empty
    /\ i = 0
    /\ power = Empty /\ old_mask = Empty
    /\ warnings = {}
    /\ params = Empty
    /\ std = Empty /\ median = <<NaN, NaN>> /\ median_2 = <<NaN, NaN>>
    /\ peak_starts = Empty /\ peak_ends = Empty
    /\ scale = 0 /\ shannon_old = NaN /\ shannon_current = NaN
    /\ baseline_old = Empty
    /\ solver_weights = Empty
    /\ output = Empty
    /\ memory = [buffer |-> [y |-> "unbound", x |-> "unbound",
                             weight_array |-> "unbound", mask |-> "unbound",
                             rough_baseline |-> "unbound"],
                 written |-> {}]

InitCall(f, A, L) ==
    /\ func = f
    /\ data \in Arrays(Samples, L)
    /\ weights \in [DOMAIN data -> {0, 1}]
    /\ args \in A
    /\ shannon_entropy = Empty /\ below_sigma = Empty
    /\ InitLocals

InitGolotvin == InitCall("golotvin", GolotvinArgs, Lengths)

SpecGolotvin == InitGolotvin /\ [][golotvin]_vars

InitDietrich == InitCall("dietrich", DietrichArgs, Lengths)

SpecDietrich == InitDietrich /\ [][NextDietrich]_vars

InitStdDistribution == InitCall("std_distribution", StdDistributionArgs, LongLengths)

SpecStdDistribution == InitStdDistribution /\ [][NextStdDistribution]_vars

InitFastchrom == InitCall("fastchrom", FastchromArgs, Lengths)

SpecFastchrom == InitFastchrom /\ [][NextFastchrom]_vars

InitFabc == InitCall("fabc", FabcArgs, Lengths)

SpecFabc == InitFabc /\ [][NextFabc]_vars

(* the entropies of a transform that is not finite are NaN, and none of    *)
(* its values is below a threshold                                         *)
InitCwtBrCall(A, S, L, E) ==
    /\ func = "cwt_br"
    /\ data \in Arrays(S, L)
    /\ weights \in [DOMAIN data -> {0, 1}]
    /\ args \in A
    /\ shannon_entropy \in
           [2..args.max_scale ->
               IF HasNaN(rescale(_setup_y(data))) THEN {NaN} ELSE E]
    /\ below_sigma \in
           [DOMAIN data ->
               IF HasNaN(rescale(_setup_y(data))) THEN {FALSE} ELSE BOOLEAN]
    /\ InitLocals

InitCwtBr == InitCwtBrCall(CwtBrArgs, Samples, Lengths, {R(1)})

SpecCwtBr == InitCwtBr /\ [][NextCwtBr]_vars

InitCwtBrSweep == InitCwtBrCall(CwtBrSweepArgs, {0, 1}, {2}, Entropies)

SpecCwtBrSweep == InitCwtBrSweep /\ [][NextCwtBr]_vars

(***************************************************************************)
(* The classifiers that take their whole mask from one thresholding.       *)
(***************************************************************************)
WeightedDietrichArgs ==
    [smooth_half_window : {0}, num_std : {R(1)}, interp_half_window : {0},
     poly_order : {0}, max_iter : {0, MaxIter}, tol : {Norm(1, 10)},
     return_coef : {FALSE}]

WeightedStdDistributionArgs ==
    [half_window : {1}, interp_half_window : {0}, fill_half_window : {1},
     num_std : {R(1)}, smooth_half_window : {0}]

InitWeighted ==
    \/ InitGolotvin
    \/ InitCall("dietrich", WeightedDietrichArgs, Lengths)
    \/ InitCall("std_distribution", WeightedStdDistributionArgs, LongLengths)
    \/ InitFabc

NextWeighted == golotvin \/ NextDietrich \/ NextStdDistribution \/ NextFabc

SpecWeighted == InitWeighted /\ [][NextWeighted]_vars

(* dietrich and cwt_br, the two classifiers with a refit loop *)
InitRefit == InitDietrich \/ InitCwtBr

NextRefit == NextDietrich \/ NextCwtBr

SpecRefit == InitRefit /\ [][NextRefit]_vars

(***************************************************************************)
(* Every classifier; the three that slice a padded array with [h:-h] are   *)
(* called with the half-windows 0 and 1.                                   *)
(***************************************************************************)
InitClassifiers ==
    \/ InitGolotvin
    \/ InitCall("dietrich", WeightedDietrichArgs, Lengths)
    \/ InitCall("std_distribution",
                [half_window : {0, 1}, interp_half_window : {0},
                 fill_half_window : {1}, num_std : {R(1)},
                 smooth_half_window : {0}],
                LongLengths)
    \/ InitCall("fastchrom",
                [half_window : {0, 1}, threshold : {R(1)}, min_fwhm : {1},
                 interp_half_window : {0}, smooth_half_window : {0},
                 max_iter : {MaxPasses}],
                Lengths)
    \/ InitCwtBrCall([poly_order : {0}, num_std : {R(1)}, max_scale : {2},
                      mask_half_window : {0, 1}, max_iter : {MaxFits},
                      tol : {Norm(1, 10)}],
                     Samples, Lengths, {R(1)})
    \/ InitFabc

NextClassifiers ==
    \/ golotvin
    \/ NextDietrich
    \/ NextStdDistribution
    \/ NextFastchrom
    \/ NextCwtBr
    \/ NextFabc

SpecClassifiers == InitClassifiers /\ [][NextClassifiers]_vars

(***************************************************************************)
(* Direct calls of the helpers _remove_single_points (applied twice) and   *)
(* _averaged_interp.  For _remove_single_points, old_mask is the argument  *)
(* of the first call; for _averaged_interp, rough_baseline is the returned *)
(* output.                                                                 *)
(***************************************************************************)
MaxMask == 5

InitHelpers ==
    /\ \/ /\ func = "_remove_single_points"
          /\ mask \in Arrays(BOOLEAN, 0..MaxMask)
          /\ y = Empty /\ x = Empty
          /\ args = [interp_half_window |-> 0]
       \/ /\ func = "_averaged_interp"
          /\ y \in Arrays({R(v) : v \in Samples}, LongLengths)
          /\ x \in {linspace(Size(y)), [k \in DOMAIN y |-> R(k * k)]}
          /\ mask \in [DOMAIN y -> BOOLEAN]
          /\ args \in [interp_half_window : {0, 1}]
    /\ data = Empty /\ weights = Empty
    /\ pc = "call"
    /\ weight_array = Empty /\ rough_baseline = Empty /\ baseline = Empty
    /\ coef = Empty /\ old_coef = Empty /\ tol_history = Empty
    /\ i = 0
    /\ power = Empty /\ old_mask = Empty
    /\ warnings = {}
    /\ params = Empty
    /\ std = Empty /\ median = <<NaN, NaN>> /\ median_2 = <<NaN, NaN>>
    /\ peak_starts = Empty /\ peak_ends = Empty
    /\ scale = 0 /\ shannon_old = NaN /\ shannon_current = NaN
    /\ baseline_old = Empty
    /\ shannon_entropy = Empty /\ below_sigma = Empty
    /\ solver_weights = Empty
    /\ output = Empty
    /\ memory = [buffer |-> [y |-> "data", x |-> "x_data",
                             weight_array |-> "unbound", mask |-> "mask",
                             rough_baseline |-> "unbound"],
                 written |-> {}]

(* mask = _remove_single_points(mask), lines 27-51 *)
remove_single_points_call ==
    /\ func = "_remove_single_points" /\ pc \in {"call", "once"}
    /\ mask' = _remove_single_points(mask)
    /\ old_mask' = IF pc = "call" THEN mask ELSE old_mask
    /\ pc' = IF pc = "call" THEN "once" ELSE "twice"
    /\ UNCHANGED <<func, output, data, weights, args, memory, y, x, weight_array,
                   rough_baseline, baseline, coef, old_coef, tol_history, i,
                   power, warnings, params, std, median, median_2, peak_starts,
                   peak_ends, cwt_vars, solver_weights>>

(* rough_baseline = _averaged_interp(x, y, mask, interp_half_window),      *)
(* lines 110-130; line 119 is not reached for a mask that is all True      *)
averaged_interp_call ==
    /\ func = "_averaged_interp" /\ pc = "call"
    /\ rough_baseline' = _averaged_interp(x, y, mask, args.interp_half_window)
    /\ warnings' = warnings \cup _averaged_interp_warning(mask)
    /\ memory' = _averaged_interp_memory(memory, mask)
    /\ IF CountTrue(mask) # 0 /\ CountTrue(mask) = Size(mask)
       THEN UNCHANGED <<peak_starts, peak_ends>>
       ELSE /\ peak_starts' = _find_peak_segments(mask)[1]
            /\ peak_ends' = _find_peak_segments(mask)[2]
    /\ pc' = "return"
    /\ UNCHANGED <<func, output, data, weights, args, y, x, weight_array, mask,
                   baseline, coef, old_coef, tol_history, i, power, old_mask,
                   params, std, median, median_2, cwt_vars, solver_weights>>

NextHelpers == remove_single_points_call \/ averaged_interp_call

SpecHelpers == InitHelpers /\ [][NextHelpers]_vars

(* diff_penalty_diagonals called on its own, as the tests of              *)
(* _banded_utils call it, with sizes and orders on both sides of the ones  *)
(* it accepts and of the data_size <= 2 * diff_order fallback              *)
MaxData == 11

MaxOrder == 5

InitBanded ==
    /\ func = "diff_penalty_diagonals"
    /\ args \in [data_size : (-1)..MaxData, diff_order : (-1)..MaxOrder,
                 lower_only : BOOLEAN, padding : (-1)..2]
    /\ data = Empty /\ weights = Empty
    /\ shannon_entropy = Empty /\ below_sigma = Empty
    /\ InitLocals

(* output = diff_penalty_diagonals(data_size, diff_order, lower_only,      *)
(* padding)                                                                *)
diff_penalty_diagonals_call ==
    /\ func = "diff_penalty_diagonals" /\ pc = "call"
    /\ IF invalid_size(args.data_size, args.diff_order)
       THEN pc' = "raise" /\ output' = output
       ELSE /\ output' = diff_penalty_diagonals(args.data_size, args.diff_order,
                                                args.lower_only, args.padding)
            /\ pc' = "return"
    /\ UNCHANGED <<func, data, weights, args, memory, y, x, weight_array, mask,
                   rough_baseline, baseline, coef, old_coef, tol_history, i,
                   power, old_mask, warnings, params, std, median, median_2,
                   peak_starts, peak_ends, cwt_vars, solver_weights>>

NextBanded == diff_penalty_diagonals_call

SpecBanded == InitBanded /\ [][NextBanded]_vars

(* _add_diagonals and _lower_to_full called on their own on small banded   *)
(* arrays: every array of zeros and ones of up to MaxRows rows and MaxCols *)
(* columns, added to arrays of each shape with entries that all differ     *)
MaxRows == 3

MaxCols == 2

BandedArrays ==
    UNION {[0..(r - 1) -> [0..(c - 1) -> {0, 1}]] :
              r \in 1..MaxRows, c \in 1..MaxCols}

CountedArrays ==
    {[r \in 0..(rows - 1) |-> [j \in 0..(cols - 1) |-> v * (10 * r + j + 1)]] :
        rows \in 1..MaxRows, cols \in 1..MaxCols, v \in {1, 2}}

InitBandedArrays ==
    /\ \/ /\ func = "_add_diagonals"
          /\ args \in [a : BandedArrays, b : CountedArrays, lower_only : BOOLEAN]
       \/ /\ func = "_lower_to_full"
          /\ args \in [ab : BandedArrays \cup CountedArrays]
    /\ data = Empty /\ weights = Empty
    /\ shannon_entropy = Empty /\ below_sigma = Empty
    /\ InitLocals

(* output = _add_diagonals(a, b, lower_only) *)
add_diagonals_call ==
    /\ func = "_add_diagonals" /\ pc = "call"
    /\ IF add_diagonals_invalid(args.a, args.b, args.lower_only)
       THEN pc' = "raise" /\ output' = output
       ELSE /\ output' = _add_diagonals(args.a, args.b, args.lower_only)
            /\ pc' = "return"
    /\ UNCHANGED <<func, data, weights, args, memory, y, x, weight_array, mask,
                   rough_baseline, baseline, coef, old_coef, tol_history, i,
                   power, old_mask, warnings, params, std, median, median_2,
                   peak_starts, peak_ends, cwt_vars, solver_weights>>

(* output = _lower_to_full(ab) *)
lower_to_full_call ==
    /\ func = "_lower_to_full" /\ pc = "call"
    /\ output' = _lower_to_full(args.ab)
    /\ pc' = "return"
    /\ UNCHANGED <<func, data, weights, args, memory, y, x, weight_array, mask,
                   rough_baseline, baseline, coef, old_coef, tol_history, i,
                   power, old_mask, warnings, params, std, median, median_2,
                   peak_starts, peak_ends, cwt_vars, solver_weights>>

NextBandedArrays == add_diagonals_call \/ lower_to_full_call

SpecBandedArrays == InitBandedArrays /\ [][NextBandedArrays]_vars

(* _iter_threshold called on its own, on every power array of up to        *)
(* MaxPower points and with num_std of either sign                         *)
MaxPower == 4

PowerSamples == {0, 1, 3, 8}

InitIterThreshold ==
    /\ func = "_iter_threshold"
    /\ args \in [power : Arrays({R(v) : v \in PowerSamples}, 1..MaxPower),
                 num_std : {R(-1), R(0), Norm(1, 2), R(1), R(3)}]
    /\ data = Empty /\ weights = Empty
    /\ shannon_entropy = Empty /\ below_sigma = Empty
    /\ InitLocals

(* lines 252-253 of mask = _iter_threshold(power, num_std) *)
iter_threshold_call ==
    /\ func = "_iter_threshold" /\ pc = "call"
    /\ _iter_threshold_enter(args.power, args.num_std)
    /\ UNCHANGED <<func, output, data, weights, args, memory, y, x, weight_array,
                   rough_baseline, baseline, coef, old_coef, tol_history, i,
                   warnings, params, std, median, median_2, peak_starts,
                   peak_ends, cwt_vars, solver_weights>>

NextIterThreshold ==
    \/ iter_threshold_call
    \/ _iter_threshold_loop
    \/ _iter_threshold_exit

SpecIterThreshold == InitIterThreshold /\ [][NextIterThreshold]_vars

(* a step of the function can be taken: the call has not run, or the while *)
(* condition of line 254 is still to be evaluated                          *)
IterThresholdRunning == pc \in {"call", "_iter_threshold"}

(* the interpreter runs the function to its end.  This is the weak         *)
(* fairness WF_vars(NextIterThreshold), with ENABLED <<NextIterThreshold>>_vars *)
(* written as the state predicate it is equal to.                          *)
FairIterThreshold ==
    /\ SpecIterThreshold
    /\ \/ []<>(~IterThresholdRunning)
       \/ []<><<NextIterThreshold>>_vars

(* std_distribution on signals long and uneven enough for the noise loop   *)
(* of lines 546-548 to go round, every point weighted.  The signals start  *)
(* with two points of flat baseline, which keeps the exact comparison of   *)
(* the medians with 0.999 within the integers of the model checker.        *)
NoiseSamples == {0, 2, 3, 4}

NoiseArgs ==
    [half_window : {1}, interp_half_window : {0}, fill_half_window : {1},
     num_std : {R(1)}, smooth_half_window : {0}]

InitNoise ==
    /\ func = "std_distribution"
    /\ data \in Arrays(NoiseSamples, {MaxLen + 2})
    /\ data[0] = 0 /\ data[1] = 0
    /\ weights = [k \in DOMAIN data |-> 1]
    /\ args \in NoiseArgs
    /\ shannon_entropy = Empty /\ below_sigma = Empty
    /\ InitLocals

SpecNoise == InitNoise /\ [][NextStdDistribution]_vars

(* a step of std_distribution can be taken: it has not returned or raised *)
StdDistributionRunning == pc \in {"call", "noise_loop"}

(* the interpreter runs the function to its end.  This is the weak         *)
(* fairness WF_vars(NextStdDistribution), with                             *)
(* ENABLED <<NextStdDistribution>>_vars written as the state predicate it  *)
(* is equal to.                                                            *)
FairNoise ==
    /\ SpecNoise
    /\ \/ []<>(~StdDistributionRunning)
       \/ []<><<NextStdDistribution>>_vars

(* Direct calls of _find_peak_segments on every mask of 1..MaxMask points  *)
InitSegments ==
    /\ func = "_find_peak_segments"
    /\ args \in [mask : Arrays(BOOLEAN, 1..MaxMask)]
    /\ data = Empty /\ weights = Empty
    /\ shannon_entropy = Empty /\ below_sigma = Empty
    /\ InitLocals

(* peak_starts, peak_ends = _find_peak_segments(mask), lines 54-83 *)
find_peak_segments_call ==
    /\ func = "_find_peak_segments" /\ pc = "call"
    /\ peak_starts' = _find_peak_segments(args.mask)[1]
    /\ peak_ends' = _find_peak_segments(args.mask)[2]
    /\ pc' = "return"
    /\ UNCHANGED <<func, output, data, weights, args, memory, y, x, weight_array,
                   mask, rough_baseline, baseline, coef, old_coef, tol_history, i,
                   power, old_mask, warnings, params, std, median, median_2,
                   cwt_vars, solver_weights>>

NextSegments == find_peak_segments_call

SpecSegments == InitSegments /\ [][NextSegments]_vars

(***************************************************************************)
(* Properties.                                                             *)
(***************************************************************************)
Returned == pc = "return"

AllTrue(m) == \A k \in DOMAIN m : m[k]

(* every index of the returned mask with input weight 0 is False *)
ZeroWeightIsPeak ==
    /\ DOMAIN params.mask = DOMAIN weights
    /\ \A k \in DOMAIN weights : weights[k] = 0 => ~params.mask[k]

(* C1: golotvin, dietrich, std_distribution and fabc return a mask that is *)
(* False at every index whose input weight is 0.                           *)
C1_WeightedMask == Returned => ZeroWeightIsPeak

(* golotvin returned, and an index that the thresholding alone classifies  *)
(* as baseline has weight 0                                                *)
C1_Witness ==
    /\ Returned /\ func = "golotvin"
    /\ \E k \in DOMAIN weights :
          /\ weights[k] = 0
          /\ golotvin_mask(y, ones(Size(y)), args)[k]
          /\ ~params.mask[k]

(* C2: fastchrom returns a mask that is False at every index whose input   *)
(* weight is 0, whatever max_iter and also after the post-pass has marked  *)
(* the lowest point of a peak segment as baseline.                         *)
C2_FastchromWeightedMask == (Returned /\ func = "fastchrom") => ZeroWeightIsPeak

(* C3: cwt_br returns a mask that is False at every index whose input      *)
(* weight is 0, whatever the number of passes of the fit loop and also     *)
(* after points below the fitted curve have been re-admitted.              *)
C3_CwtBrWeightedMask == (Returned /\ func = "cwt_br") => ZeroWeightIsPeak

(* the data is exactly a polynomial in x of degree <= poly_order *)
IsPolynomialData ==
    vander_dot(_setup_x(data), lstsq(_setup_x(data), _setup_y(data), args.poly_order))
        = _setup_y(data)

(* C4: the baseline cwt_br returns is in the units of the input data: for  *)
(* data that is exactly a polynomial of degree <= poly_order, with every   *)
(* point kept in the mask, the returned baseline equals the input data.    *)
C4_BaselineInInputUnits ==
    (Returned /\ func = "cwt_br" /\ IsPolynomialData /\ AllTrue(params.mask))
        => baseline = _setup_y(data)

(* calc_difference >= tol, with calc_difference held as its square *)
AtLeastTol(sq, tol) == ~IsNaN(sq) /\ RLe(RSq(tol), sq)

(* the number of entries of tol_history when no pass breaks *)
FullHistory == IF func = "dietrich" THEN args.max_iter - 1 ELSE args.max_iter + 1

HasHistory == Returned /\ "tol_history" \in DOMAIN params

(* C5: in dietrich and cwt_br every entry of the returned tol_history but  *)
(* the last is >= tol, a last entry >= tol comes with the complete         *)
(* history, and no pass of either loop ends in an error.                   *)
C5_StopsAtFirstBelowTol ==
    /\ HasHistory =>
          LET h == params.tol_history
              n == Size(h)
          IN  /\ n >= 1
              /\ \A k \in 0..(n - 2) : AtLeastTol(h[k], args.tol)
              /\ AtLeastTol(h[n - 1], args.tol) => n = FullHistory
    /\ pc = "raise" => tol_history = Empty

(* a loop that broke on its second or a later pass *)
C5_Witness ==
    /\ HasHistory
    /\ Size(params.tol_history) >= 2
    /\ Size(params.tol_history) < FullHistory
    /\ ~AtLeastTol(params.tol_history[Size(params.tol_history) - 1], args.tol)

(* C6: dietrich returns tol_history if and only if max_iter > 1; it then   *)
(* has one written entry for each pass of the refit loop that ran, at      *)
(* least 1 and at most max_iter - 1 of them.                               *)
C6_DietrichHistory ==
    (Returned /\ func = "dietrich") =>
        /\ "tol_history" \in DOMAIN params <=> args.max_iter > 1
        /\ "tol_history" \in DOMAIN params =>
              /\ Size(params.tol_history) = i + 1
              /\ Size(params.tol_history) \in 1..(args.max_iter - 1)
              /\ \A k \in DOMAIN params.tol_history :
                    /\ params.tol_history[k] # Uninit
                    /\ params.tol_history[k] = tol_history[k]

(* dietrich returned after two passes of a loop that allowed for more *)
C6_Witness ==
    /\ Returned /\ func = "dietrich"
    /\ "tol_history" \in DOMAIN params
    /\ Size(params.tol_history) = 2

(* C7: cwt_br returns a tol_history with one written entry for each pass   *)
(* of the fit loop that ran, at least 1 and at most max_iter + 1 of them.  *)
C7_CwtBrHistory ==
    (Returned /\ func = "cwt_br") =>
        /\ Size(params.tol_history) = i + 1
        /\ Size(params.tol_history) \in 1..(args.max_iter + 1)
        /\ \A k \in DOMAIN params.tol_history :
              /\ params.tol_history[k] # Uninit
              /\ params.tol_history[k] = tol_history[k]

(* cwt_br returned before the last pass its max_iter allowed *)
C7_Witness ==
    /\ Returned /\ func = "cwt_br"
    /\ Size(params.tol_history) = 2
    /\ args.max_iter = MaxFits

(* C8: dietrich with max_iter = 0 returns the result of _averaged_interp   *)
(* on the classified mask, and params holds 'mask' alone.                  *)
C8_DietrichNoFit ==
    (Returned /\ func = "dietrich" /\ args.max_iter = 0) =>
        /\ baseline = _averaged_interp(x, y, params.mask, args.interp_half_window)
        /\ DOMAIN params = {"mask"}
        /\ coef = Empty

(* such a call with return_coef set and an interpolated section *)
C8_Witness ==
    /\ Returned /\ func = "dietrich" /\ args.max_iter = 0
    /\ args.return_coef
    /\ \E k \in DOMAIN mask : mask[k]
    /\ \E k \in DOMAIN mask : ~mask[k] /\ baseline[k] # y[k]

(* the scales whose entropy the sweep evaluated *)
Evaluated == min_scale(Size(data))..scale

(* C9: the best_scale cwt_br returns is the scale whose entropy is the     *)
(* smallest of the entropies the sweep evaluated.                          *)
C9_BestScaleIsMinimum ==
    (Returned /\ func = "cwt_br") =>
        \A s \in Evaluated :
            RLe(shannon_entropy[params.best_scale], shannon_entropy[s])

(* C10: every pass of dietrich's refit loop replaces the working baseline  *)
(* by the current fit where mask is False and leaves it where mask is True *)
C10_RefitReplacesInterpolated ==
    [][dietrich_refit =>
          \A k \in DOMAIN mask :
              rough_baseline'[k] = IF mask[k] THEN rough_baseline[k] ELSE baseline[k]]_vars



(***************************************************************************)
(* C11: every weight vector fabc passes to _whittaker_smooth has at least  *)
(* one strictly positive entry, whatever the data and the weights.         *)
(***************************************************************************)
C11_FabcSolverWeightPositive ==
    (func = "fabc" /\ pc \in {"return", "raise"}) =>
        \E k \in DOMAIN solver_weights : RGt(solver_weights[k], R(0))

(***************************************************************************)
(* C12: the returned mask has as many entries as the data, and the slices  *)
(* [half_window:-half_window] of std_distribution and fastchrom and        *)
(* [mask_half_window:-mask_half_window] of cwt_br have as many entries as  *)
(* the data for every half-window >= 0.                                    *)
(***************************************************************************)
C12_MaskLength ==
    /\ Returned => Size(params.mask) = Size(data)
    /\ (func \in {"std_distribution", "fastchrom"} /\ pc # "call") =>
           Size(std) = Size(data)
    /\ (/\ func = "cwt_br" /\ pc \notin {"call", "sweep", "swept"}
        /\ min_scale(Size(data)) <= args.max_scale /\ ~HasNaN(y)) =>
           Size(eroded(below_sigma, args.mask_half_window)) = Size(data)

(***************************************************************************)
(* C13: no classifier writes into the caller's data, x or weights array:   *)
(* every buffer updated in place was created during the call.              *)
(***************************************************************************)
C13_InputsNotWritten == memory.written \subseteq {"local"}

(* a call has returned after writing in place: the interpolation of        *)
(* _averaged_interp, line 378 of dietrich, line 683 of fastchrom or lines  *)
(* 845 and 861 of cwt_br                                                   *)
C13_Witness ==
    /\ Returned
    /\ memory.written = {"local"}
    /\ memory.buffer.y = "data" \/ func = "cwt_br"
    /\ \/ func = "golotvin"
       \/ func = "std_distribution"
       \/ func = "dietrich" /\ HasHistory
       \/ func = "fastchrom" /\ i > 0 /\ mask # And(_remove_single_points(
              fastchrom_threshold(std, args.threshold)), weight_array)
       \/ func = "cwt_br" /\ i > 0

(***************************************************************************)
(* C14: _remove_single_points is idempotent: applied twice to a mask, it   *)
(* returns what it returns applied once.                                   *)
(***************************************************************************)
C14_RemoveSinglePointsIdempotent ==
    (func = "_remove_single_points" /\ pc = "twice") =>
        mask = _remove_single_points(old_mask)

(* the function was applied twice to a mask that its first application     *)
(* changed                                                                 *)
C14_Witness ==
    /\ func = "_remove_single_points" /\ pc = "twice"
    /\ mask # old_mask
    /\ \E k \in DOMAIN mask : mask[k]

(* the maximal run of the value v that contains index k has length 1 *)
LoneAt(m, k, v) ==
    /\ m[k] = v
    /\ k - 1 \in DOMAIN m => m[k - 1] # v
    /\ k + 1 \in DOMAIN m => m[k + 1] # v

(***************************************************************************)
(* C15: the output of _remove_single_points has no maximal run of True of  *)
(* length 1 and no maximal run of False of length 1 at any position, the   *)
(* first and the last included, and a mask alternating True and False ends *)
(* all False.                                                              *)
(***************************************************************************)
C15_NoLoneValues ==
    (func = "_remove_single_points" /\ pc = "once") =>
        /\ \A k \in DOMAIN mask : ~LoneAt(mask, k, TRUE) /\ ~LoneAt(mask, k, FALSE)
        /\ (\A k \in DOMAIN old_mask : k > 0 => old_mask[k] # old_mask[k - 1]) =>
               \A k \in DOMAIN mask : ~mask[k]

(* the value at x[k] of the straight line through (x[a], ya) and (x[b], yb) *)
LineAt(xs, k, a, ya, b, yb) ==
    RAdd(ya, RMul(RSub(xs[k], xs[a]), RDiv(RSub(yb, ya), RSub(xs[b], xs[a]))))

(* the nearest True index below k, or the first index *)
LeftBound(m, k) ==
    IF \E j \in DOMAIN m : j < k /\ m[j]
    THEN CHOOSE j \in DOMAIN m : j < k /\ m[j] /\ \A l \in (j + 1)..(k - 1) : ~m[l]
    ELSE 0

(* the nearest True index above k, or the last index *)
RightBound(m, k) ==
    IF \E j \in DOMAIN m : j > k /\ m[j]
    THEN CHOOSE j \in DOMAIN m : j > k /\ m[j] /\ \A l \in (k + 1)..(j - 1) : ~m[l]
    ELSE Size(m) - 1

InterpReturned == func = "_averaged_interp" /\ pc = "return"

(***************************************************************************)
(* C16: with interp_half_window = 0 and a mask that has a True and a False *)
(* entry, _averaged_interp returns y at every True index and, at every     *)
(* False index, the value of the straight line in x between the raw y at   *)
(* the two points that bound the run: the nearest True neighbour on each   *)
(* side, or the first or last sample for a run at an end of the array.     *)
(***************************************************************************)
C16_LinearInterpolation ==
    (/\ InterpReturned /\ args.interp_half_window = 0
     /\ \E k \in DOMAIN mask : mask[k]
     /\ \E k \in DOMAIN mask : ~mask[k]) =>
        \A k \in DOMAIN mask :
            IF mask[k]
            THEN rough_baseline[k] = y[k]
            ELSE LET a == LeftBound(mask, k)
                     b == RightBound(mask, k)
                 IN  rough_baseline[k] = LineAt(x, k, a, y[a], b, y[b])

(* a run of at least two False between two True, on unevenly spaced x,     *)
(* with a returned value that differs from y                               *)
C16_Witness ==
    /\ InterpReturned /\ args.interp_half_window = 0
    /\ x # linspace(Size(y))
    /\ \E k \in DOMAIN mask :
           /\ k - 1 \in DOMAIN mask /\ k + 2 \in DOMAIN mask
           /\ mask[k - 1] /\ ~mask[k] /\ ~mask[k + 1] /\ mask[k + 2]
           /\ rough_baseline[k] # y[k]

(***************************************************************************)
(* C17: for every mask and every interp_half_window >= 0, _averaged_interp *)
(* returns y at every index where the mask is True.                        *)
(***************************************************************************)
C17_BaselinePointsKept ==
    InterpReturned => \A k \in DOMAIN mask : mask[k] => rough_baseline[k] = y[k]

(* an averaging window of more than one point, a True index whose window   *)
(* average is not its value, and a peak value that was replaced            *)
C17_Witness ==
    /\ InterpReturned /\ args.interp_half_window = 1
    /\ \E k \in DOMAIN mask :
           mask[k] /\ mean(PySlice(y, Max2(0, k - 1), Min2(k + 2, Size(y)))) # y[k]
    /\ \E k \in DOMAIN mask : ~mask[k] /\ rough_baseline[k] # y[k]

(* the mean of y over the window of half-width h around index k, lines     *)
(* 122-127                                                                 *)
WindowMean(ys, k, h) == mean(PySlice(ys, Max2(0, k - h), Min2(k + h + 1, Size(ys))))

(* the warnings, the segments and the output for a mask that is all True,  *)
(* and the warnings and the segments for a mask of N >= 2 that is all      *)
(* False                                                                   *)
DegenerateMaskHandled ==
    /\ (Size(mask) >= 1 /\ AllTrue(mask)) =>
           /\ warnings = {"there were no peak points found"}
           /\ rough_baseline = y
    /\ (Size(mask) >= 2 /\ \A k \in DOMAIN mask : ~mask[k]) =>
           /\ warnings = {"there were no baseline points found"}
           /\ peak_starts = One(0)
           /\ peak_ends = One(Size(mask) - 1)

(* the line between the averages around the first and the last sample *)
GlobalLine(k) ==
    LineAt(x, k, 0, WindowMean(y, 0, args.interp_half_window),
           Size(y) - 1, WindowMean(y, Size(y) - 1, args.interp_half_window))

C19_DiagonalsOfDenseProduct ==
    (func = "diff_penalty_diagonals" /\ pc = "return") =>
        /\ output = expected_diagonals(args.data_size, args.diff_order,
                                       args.lower_only, args.padding)
        /\ (args.diff_order = 0 /\ args.padding <= 0) =>
               output = [r \in {0} |-> [j \in 0..(args.data_size - 1) |-> 1]]

(* a closed form with its end values and its interior on the full band,    *)
(* padded                                                                  *)
C19_Witness ==
    /\ func = "diff_penalty_diagonals" /\ pc = "return"
    /\ args.diff_order = 3 /\ args.data_size > 8
    /\ ~args.lower_only /\ args.padding = 2
    /\ Size(output) = 11
    /\ output[5] = [j \in 0..(args.data_size - 1) |->
                       IF j \in {0, args.data_size - 1} THEN 1
                       ELSE IF j \in {1, args.data_size - 2} THEN 10
                       ELSE IF j \in {2, args.data_size - 3} THEN 19
                       ELSE 20]

(* C20: diff_penalty_diagonals raises ValueError exactly when the order is *)
(* negative or the data size is not positive, and then returns no          *)
(* diagonals.                                                              *)
C20_InvalidSizeRaises ==
    (func = "diff_penalty_diagonals" /\ pc # "call") =>
        /\ (pc = "raise") <=> (args.diff_order < 0 \/ args.data_size <= 0)
        /\ (pc = "raise") => output = Empty

(* diff_penalty_diagonals(0), of the default order, raised *)
C20_Witness ==
    /\ func = "diff_penalty_diagonals" /\ pc = "raise"
    /\ args.data_size = 0 /\ args.diff_order = 2
    /\ output = Empty

(* C21: _add_diagonals(a, b) = _add_diagonals(b, a) for bands of one       *)
(* number of columns, the sum is the elementwise one when the two have the *)
(* same number of rows, and the call raises exactly when the numbers of    *)
(* columns differ or, with lower_only = False, the numbers of rows differ  *)
(* by an odd number.                                                       *)
C21_AddDiagonalsCommutes ==
    (func = "_add_diagonals" /\ pc # "call") =>
        /\ (pc = "raise") <=>
               \/ Columns(args.a) # Columns(args.b)
               \/ ~args.lower_only /\ (Size(args.a) - Size(args.b)) % 2 = 1
        /\ (pc = "return") =>
               /\ output = _add_diagonals(args.b, args.a, args.lower_only)
               /\ Size(output) = Max2(Size(args.a), Size(args.b))
               /\ Size(args.a) = Size(args.b) =>
                      \A r \in DOMAIN output : \A j \in DOMAIN output[r] :
                          output[r][j] = args.a[r][j] + args.b[r][j]

(* a full band of three rows added to one of one row, which lands on the   *)
(* middle row                                                              *)
C21_Witness ==
    /\ func = "_add_diagonals" /\ pc = "return"
    /\ ~args.lower_only
    /\ Size(args.a) = 3 /\ Size(args.b) = 1 /\ Columns(args.a) = 2
    /\ output[0] = args.a[0] /\ output[2] = args.a[2]
    /\ output[1] # args.a[1]

(* C22: for a lower band of k + 1 rows _lower_to_full returns 2k + 1 rows; *)
(* the last k + 1 are the band itself and row r of the first k is the      *)
(* sub-diagonal k - r moved right by k - r, with zeros at its left.        *)
C22_LowerToFull ==
    (func = "_lower_to_full" /\ pc = "return") =>
        /\ Size(output) = 2 * Size(args.ab) - 1
        /\ from_row(output, Size(args.ab) - 1) = args.ab
        /\ \A r \in 0..(Size(args.ab) - 2) :
               \A j \in 0..(Columns(args.ab) - 1) :
                   output[r][j] =
                       IF j >= Size(args.ab) - 1 - r
                       THEN args.ab[Size(args.ab) - 1 - r][j - (Size(args.ab) - 1 - r)]
                       ELSE 0

(* a band of three rows of entries that all differ *)
C22_Witness ==
    /\ func = "_lower_to_full" /\ pc = "return"
    /\ args.ab = [r \in 0..2 |-> [j \in 0..1 |-> 10 * r + j + 1]]
    /\ output = [r \in 0..4 |->
                    IF r = 0 THEN [j \in 0..1 |-> 0]
                    ELSE IF r = 1 THEN [j \in 0..1 |-> IF j = 0 THEN 0 ELSE 11]
                    ELSE args.ab[r - 2]]

IterThresholdReturned == func = "_iter_threshold" /\ pc = "thresholded"

IsConstant(a) == \A k \in DOMAIN a : a[k] = a[0]

(* C23: _iter_threshold returns for every finite power array of at least   *)
(* one point and every num_std; the mask it returns is a fixed point of    *)
(* mask = power < mean(power[mask]) + num_std * std(power[mask], ddof=1),  *)
(* or it has fewer than 2 True entries and the ParameterWarning was        *)
(* issued; for a constant power array the mask is all False.               *)
C23_IterThresholdTerminates ==
    /\ <>IterThresholdReturned
    /\ [](IterThresholdReturned =>
            /\ \/ mask = threshold_mask(power, Masked(power, mask), args.num_std)
               \/ /\ CountTrue(mask) < 2
                  /\ "not enough baseline points found" \in warnings
            /\ IsConstant(power) => \A k \in DOMAIN mask : ~mask[k])

(* a return by the fixed point after the mask has shrunk *)
C23_Witness ==
    /\ IterThresholdReturned
    /\ CountTrue(mask) >= 2 /\ CountTrue(mask) < Size(mask)
    /\ mask = old_mask
    /\ warnings = {}

(* C26: with num_std >= 0 every mask of _iter_threshold is a subset of the *)
(* mask before it: a point masked out is never admitted again.             *)
C26_MasksShrink ==
    [][(func = "_iter_threshold" /\ pc = "_iter_threshold"
            /\ RSign(args.num_std) >= 0) =>
           \A k \in DOMAIN mask : mask'[k] => mask[k]]_vars

(* the loop has computed a second mask, smaller than the first *)
C26_Witness ==
    /\ func = "_iter_threshold" /\ pc = "_iter_threshold"
    /\ RSign(args.num_std) >= 0
    /\ mask # old_mask
    /\ CountTrue(old_mask) < Size(mask)
    /\ \A k \in DOMAIN mask : mask[k] => old_mask[k]

(* the baseline is not below the data at k *)
NotBelow(k) == ~RLt(rough_baseline[k], y[k])

(* the points a..b of the peak segment s are a run of NotBelow *)
IsRun(s, a, b) ==
    /\ a \in peak_starts[s]..peak_ends[s] /\ b \in a..peak_ends[s]
    /\ \A k \in a..b : NotBelow(k)

(* a segment has a run of more than min_fwhm points *)
HasLongRun ==
    \E s \in DOMAIN peak_starts :
        \E a, b \in DOMAIN y : IsRun(s, a, b) /\ b - a + 1 > args.min_fwhm

(* a segment has a run whose bounds, the points of the section next to the *)
(* run or the ends of the section, are more than min_fwhm apart            *)
HasWideRun ==
    \E s \in DOMAIN peak_starts :
        \E a, b \in DOMAIN y :
            /\ IsRun(s, a, b)
            /\ (b - a) + (IF a > peak_starts[s] THEN 1 ELSE 0)
                       + (IF b < peak_ends[s] THEN 1 ELSE 0) > args.min_fwhm

(* the post-pass is entered for this mask *)
PostPassEntered(m) ==
    args.max_iter > 0 /\ CountTrue(m) # 0 /\ CountTrue(m) # Size(m)

(* C24 as stated: at most max_iter passes; the loop goes on after a pass   *)
(* exactly when a segment has a run of more than min_fwhm points where the *)
(* baseline is not below the data and passes are left; no pass when        *)
(* max_iter = 0 or the first mask is all True or all False, and then the   *)
(* returned mask is the mask of line 663.                                  *)
C24_PostPassStopsWithoutLongRun ==
    [][func = "fastchrom" =>
         /\ pc = "post_pass" =>
                /\ i < args.max_iter
                /\ (pc' = "post_pass") <=> (HasLongRun /\ i + 1 < args.max_iter)
         /\ (pc = "call" /\ pc' # "raise") =>
                ((pc' = "post_pass") <=> PostPassEntered(mask'))
         /\ (pc = "post_done" /\ i = 0) =>
                params'.mask = And(_remove_single_points(
                                       fastchrom_threshold(std, args.threshold)),
                                   weight_array)]_vars

(* C24 amended: the loop goes on exactly when the bounds of a run are more *)
(* than min_fwhm apart and passes are left; the rest as above.             *)
C24_PostPassStopsWithoutWideRun ==
    [][func = "fastchrom" =>
         /\ pc = "post_pass" =>
                /\ i < args.max_iter
                /\ (pc' = "post_pass") <=> (HasWideRun /\ i + 1 < args.max_iter)
         /\ (pc = "call" /\ pc' # "raise") =>
                ((pc' = "post_pass") <=> PostPassEntered(mask'))
         /\ (pc = "post_done" /\ i = 0) =>
                params'.mask = And(_remove_single_points(
                                       fastchrom_threshold(std, args.threshold)),
                                   weight_array)]_vars

(* the loop has ended on a pass that changed nothing, before max_iter *)
C24_Witness ==
    /\ func = "fastchrom" /\ pc = "post_done"
    /\ i > 0 /\ i < args.max_iter
    /\ ~HasWideRun

(* C27: a pass of the post-pass that sets modified_baseline turns at least *)
(* one False entry of the mask True, and the peak segments of every pass   *)
(* are those of the mask as it is at that pass.                            *)
C27_PassMakesProgress ==
    [][(func = "fastchrom" /\ pc = "post_pass") =>
           /\ peak_starts = _find_peak_segments(mask)[1]
           /\ peak_ends = _find_peak_segments(mask)[2]
           /\ HasWideRun => \E k \in DOMAIN mask : ~mask[k] /\ mask'[k]]_vars

(* std[j] > num_std * noise_std at the return of std_distribution *)
IsPeakStd(j) == RootGtMed(std[j], args.num_std, median_2)

(* C25: in std_distribution mask[k] is True exactly when weights[k] is not *)
(* 0 and no j within fill_half_window of k has a rolling std above         *)
(* num_std * noise_std; lone points are not removed from this mask.        *)
C25_StdDistributionMask ==
    (func = "std_distribution" /\ pc = "return") =>
        /\ DOMAIN params.mask = DOMAIN data
        /\ \A k \in DOMAIN data :
               params.mask[k] <=>
                   /\ weights[k] # 0
                   /\ ~\E j \in DOMAIN data :
                          Abs(k - j) <= args.fill_half_window /\ IsPeakStd(j)

(* a point excluded for a neighbour's std alone, in a mask that            *)
(* _remove_single_points would change                                      *)
C25_Witness ==
    /\ func = "std_distribution" /\ pc = "return"
    /\ \E k \in DOMAIN data :
           ~params.mask[k] /\ weights[k] # 0 /\ ~IsPeakStd(k)
    /\ _remove_single_points(params.mask) # params.mask

(* the indices of std[std < 2 * m] *)
BelowTwice(m) == {k \in DOMAIN std : RootLtMed(std[k], R(2), m)}

(* one pass of the loop of lines 546-548 *)
NoisePass == func = "std_distribution" /\ pc = "noise_loop" /\ pc' = "noise_loop"

(* the ratio median_2 / median is not a number below 0.999 *)
NoiseSettled ==
    \/ MedIsNaN(median_2) \/ MedIsNaN(median) \/ MedIsZero(median)
    \/ ~MedRatioLt(median_2, median, Norm(999, 1000))

(* C30 as stated: std_distribution leaves its noise loop; every pass of    *)
(* the loop makes the set {std < 2 * median} strictly smaller; the loop    *)
(* is left exactly when the ratio of the two medians is at least 0.999 or  *)
(* is not defined.                                                         *)
C30_NoiseLoopShrinks ==
    /\ <>(func = "std_distribution" /\ pc \in {"return", "raise"})
    /\ [][/\ NoisePass =>
                /\ BelowTwice(median') \subseteq BelowTwice(median)
                /\ BelowTwice(median') # BelowTwice(median)
          /\ (func = "std_distribution" /\ pc = "noise_loop") =>
                ((pc' # "noise_loop") <=> NoiseSettled)]_vars

(* C30 amended: a pass never enlarges the set, and a pass that leaves it   *)
(* as it was computes the median it already had, so that the loop is left  *)
(* at the next test.                                                       *)
C30_NoiseLoopSettles ==
    /\ <>(func = "std_distribution" /\ pc \in {"return", "raise"})
    /\ [][/\ NoisePass =>
                /\ BelowTwice(median') \subseteq BelowTwice(median)
                /\ BelowTwice(median') = BelowTwice(median) =>
                       median_2' = median'
          /\ (func = "std_distribution" /\ pc = "noise_loop") =>
                ((pc' # "noise_loop") <=> NoiseSettled)]_vars

(* the loop has gone round and left the set as it was *)
C30_Witness ==
    /\ func = "std_distribution" /\ pc = "noise_loop"
    /\ median # median_of(std)
    /\ median_2 = median
    /\ BelowTwice(median) # {} /\ BelowTwice(median) # DOMAIN std

(* the first index of every maximal run of False of m, in rising order *)
RunFirsts(m) == Sorted({k \in DOMAIN m : ~m[k] /\ (k = 0 \/ m[k - 1])})

SegmentsReturned == func = "_find_peak_segments" /\ pc = "return"

(* C28: _find_peak_segments returns two arrays of one length, one pair for *)
(* each maximal run of False, both strictly increasing, with               *)
(* 0 <= start <= end <= N - 1; start is the True index just before the run *)
(* (0 for a run that begins at index 0), end is the True index just after  *)
(* it (N - 1 for a run that reaches the last index), and a segment ends no *)
(* later than the next one starts.                                         *)
C28_PeakSegments ==
    SegmentsReturned =>
        LET m      == args.mask
            firsts == RunFirsts(m)
        IN  /\ Size(peak_starts) = Size(peak_ends)
            /\ Size(peak_starts) = Size(firsts)
            /\ \A k \in DOMAIN peak_starts :
                   /\ 0 <= peak_starts[k] /\ peak_starts[k] <= peak_ends[k]
                   /\ peak_ends[k] <= Size(m) - 1
                   /\ peak_starts[k] = LeftBound(m, firsts[k])
                   /\ peak_ends[k] = RightBound(m, firsts[k])
                   /\ firsts[k] > 0 => peak_starts[k] = firsts[k] - 1
                   /\ \A l \in (peak_starts[k] + 1)..(peak_ends[k] - 1) : ~m[l]
                   /\ k + 1 < Size(peak_starts) =>
                          /\ peak_starts[k] < peak_starts[k + 1]
                          /\ peak_ends[k] < peak_ends[k + 1]
                          /\ peak_ends[k] <= peak_starts[k + 1]

(* a run from index 0 and a run to the last index, one True between them *)
C28_Witness ==
    /\ SegmentsReturned
    /\ Size(peak_starts) = 2
    /\ ~args.mask[0] /\ peak_starts[0] = 0
    /\ peak_ends[0] = peak_starts[1]
    /\ peak_ends[1] = Size(args.mask) - 1 /\ ~args.mask[peak_ends[1]]

(* C29: on every return from cwt_br, by convergence or after the last of   *)
(* the max_iter + 1 passes, the returned baseline is the polynomial fit to *)
(* exactly the points of the returned mask: the mask is the one the last   *)
(* fit used.                                                               *)
C29_BaselineFitsReturnedMask ==
    [][(cwt_br_refit /\ pc' = "return") =>
          /\ params'.mask = mask
          /\ baseline' = vander_dot(x, lstsq(Masked(x, params'.mask),
                                             Masked(y, params'.mask),
                                             args.poly_order))]_vars
=============================================================================
